---- MODULE Spec2Model ----
(***************************************************************************)
(* Model of the multi-source ingestion pipeline of src/src/api_data.py:    *)
(* fetch_data (retry loop), the nine normalize_* record normalizers,       *)
(* save_to_database (bulk insert + metadata upsert), _init_database and    *)
(* fetch_all_sources (the orchestrator).                                   *)
(*                                                                         *)
(* Python values are tagged records [k, s, n, d]:                          *)
(*   k = "none"  : None                                                    *)
(*   k = "str"   : a string, s = its characters (one-character strings)    *)
(*   k = "int"   : an int n                                                *)
(*   k = "float" : the float n / 10^d                                      *)
(*   k = "time"  : datetime.now().isoformat() taken at clock value n       *)
(***************************************************************************)
EXTENDS Integers, Sequences, FiniteSets, TLC

VARIABLES
    pc,          \* position of the running call
    attempt,     \* fetch_data: loop variable `attempt`
    maxRetries,  \* fetch_data: parameter max_retries
    fetchLog,    \* fetch_data: the HTTP requests and sleeps of the call, in order
    fetchRet,    \* fetch_data: the returned value (None or the parsed body)
    tables,      \* database: destination table name -> its rows, in insert order
    metadata,    \* database: data_metadata, table_name -> row (or NoRow)
    connOpen,    \* database: a sqlite3 connection is open
    saveRet,     \* save_to_database: the returned (count, status), and its call
    normIn,      \* a normalizer call: variant and input records
    normOut,     \* a normalizer call: rows, counters, escaped exception
    enabled,     \* DATA_SOURCES: the source keys whose 'enabled' flag is true
    idx,         \* fetch_all_sources: position in DATA_SOURCES.items()
    results,     \* fetch_all_sources: the results dict
    requested,   \* fetch_all_sources: source keys an HTTP request was issued for
    runLog,      \* fetch_all_sources: per processed source, what was called
    clock,       \* datetime.now()
    schema,      \* database: the names of the tables that exist
    initRet,     \* _init_database: the last call, and whether it raised
    fnIn,        \* a helper call (parse_numeric_keep_raw, clean_column_name): argument
    fnOut,       \* a helper call: what it returned
    sqlite,      \* save_to_sqlite: the destination table of the database file
    sqliteCall,  \* save_to_sqlite: the last call, and what it returned
    calls,       \* concurrent save_to_database calls: each call's position
    dbLock       \* database file: the connection holding the write lock, or 0

vars == <<pc, attempt, maxRetries, fetchLog, fetchRet, tables, metadata, connOpen,
          saveRet, normIn, normOut, enabled, idx, results, requested, runLog, clock,
          schema, initRet, fnIn, fnOut, sqlite, sqliteCall, calls, dbLock>>

fetchVars == <<attempt, maxRetries, fetchLog, fetchRet>>
dbVars == <<tables, metadata, connOpen, saveRet>>
normVars == <<normIn, normOut>>
runVars == <<enabled, idx, results, requested, runLog>>
schemaVars == <<schema, initRet>>
helperVars == <<fnIn, fnOut>>
sqliteVars == <<sqlite, sqliteCall>>
concVars == <<calls, dbLock>>

----------------------------------------------------------------------------
(* Bounds of the model *)

\* largest max_retries a fetch_data call is given
MaxRetries == 3
\* longest record list given to a normalizer
MaxRecords == 2
\* most save_to_database / _init_database calls in one behaviour
MaxCalls == 3
\* most rows in one save_to_database batch
MaxBatch == 2
\* most sources with enabled = True in a DATA_SOURCES configuration
MaxEnabled == 2
\* longest string drawn from the alphabets given to the helper functions
MaxChars == 3

----------------------------------------------------------------------------
(* Python values *)

None == [k |-> "none", s |-> <<>>, n |-> 0, d |-> 0]
Str(chars) == [k |-> "str", s |-> chars, n |-> 0, d |-> 0]
Int_(i) == [k |-> "int", s |-> <<>>, n |-> i, d |-> 0]
Time(t) == [k |-> "time", s |-> <<>>, n |-> t, d |-> 0]

RECURSIVE Pow10(_)
Pow10(e) == IF e = 0 THEN 1 ELSE 10 * Pow10(e - 1)

\* a float n / 10^d, with trailing zero decimals removed so that equal floats
\* are equal values
RECURSIVE Float(_, _)
Float(m, e) ==
    IF e > 0 /\ m % 10 = 0 THEN Float(m \div 10, e - 1)
    ELSE [k |-> "float", s |-> <<>>, n |-> m, d |-> e]

\* bool(v): None, "", 0 and 0.0 are false
Truthy(v) ==
    CASE v.k = "none" -> FALSE
      [] v.k = "str" -> v.s # <<>>
      [] v.k = "int" -> v.n # 0
      [] v.k = "float" -> v.n # 0
      [] OTHER -> TRUE

\* a or b
Or(a, b) == IF Truthy(a) THEN a ELSE b

Digits == {"0", "1", "2", "3", "4", "5", "6", "7", "8", "9"}

DigitVal(c) ==
    CASE c = "0" -> 0 [] c = "1" -> 1 [] c = "2" -> 2 [] c = "3" -> 3
      [] c = "4" -> 4 [] c = "5" -> 5 [] c = "6" -> 6 [] c = "7" -> 7
      [] c = "8" -> 8 [] c = "9" -> 9

DigitChar(i) ==
    CASE i = 0 -> "0" [] i = 1 -> "1" [] i = 2 -> "2" [] i = 3 -> "3"
      [] i = 4 -> "4" [] i = 5 -> "5" [] i = 6 -> "6" [] i = 7 -> "7"
      [] i = 8 -> "8" [] i = 9 -> "9"

IsSpace(c) == c = " "

\* str.strip()
RECURSIVE LStrip(_)
LStrip(s) == IF s # <<>> /\ IsSpace(Head(s)) THEN LStrip(Tail(s)) ELSE s

RECURSIVE RStrip(_)
RStrip(s) ==
    IF s # <<>> /\ IsSpace(s[Len(s)]) THEN RStrip(SubSeq(s, 1, Len(s) - 1)) ELSE s

Strip(s) == RStrip(LStrip(s))

AllDigits(s) == \A i \in 1..Len(s) : s[i] \in Digits

\* the value of a digit string
RECURSIVE DigitsVal(_)
DigitsVal(s) ==
    IF s = <<>> THEN 0
    ELSE 10 * DigitsVal(SubSeq(s, 1, Len(s) - 1)) + DigitVal(s[Len(s)])

\* the decimal digits of a natural number
RECURSIVE NatChars(_)
NatChars(i) ==
    IF i < 10 THEN <<DigitChar(i)>> ELSE Append(NatChars(i \div 10), DigitChar(i % 10))

\* str(v) for None, str and int values
StrOf(v) ==
    CASE v.k = "str" -> v.s
      [] v.k = "none" -> <<"N", "o", "n", "e">>
      [] v.k = "int" -> IF v.n < 0 THEN <<"-">> \o NatChars(-v.n) ELSE NatChars(v.n)
      [] OTHER -> <<"?">>

\* the position of the first "." of s, or 0
DotAt(s) ==
    IF \E i \in 1..Len(s) : s[i] = "."
    THEN CHOOSE i \in 1..Len(s) : s[i] = "." /\ \A j \in 1..(i - 1) : s[j] # "."
    ELSE 0

\* float(text) of an unsigned literal: digits, at most one ".", at least one digit
\* (the strings of this model hold no exponent, "inf" or "nan" spelling)
UFloatOk(s) ==
    LET p == DotAt(s) IN
    IF p = 0 THEN s # <<>> /\ AllDigits(s)
    ELSE /\ AllDigits(SubSeq(s, 1, p - 1))
         /\ AllDigits(SubSeq(s, p + 1, Len(s)))
         /\ Len(s) > 1

UFloatVal(s) ==
    LET p == DotAt(s) IN
    IF p = 0 THEN Float(DigitsVal(s), 0)
    ELSE Float(DigitsVal(SubSeq(s, 1, p - 1) \o SubSeq(s, p + 1, Len(s))), Len(s) - p)

Neg(v) == [v EXCEPT !.n = -v.n]

\* float(x): [ok, v]; ok = FALSE is ValueError / TypeError
PyFloat(x) ==
    CASE x.k = "float" -> [ok |-> TRUE, v |-> x]
      [] x.k = "int" -> [ok |-> TRUE, v |-> Float(x.n, 0)]
      [] x.k = "str" ->
            LET t == Strip(x.s)
                neg == t # <<>> /\ Head(t) = "-"
                u == IF neg THEN Tail(t) ELSE t
            IN  IF UFloatOk(u)
                THEN [ok |-> TRUE, v |-> IF neg THEN Neg(UFloatVal(u)) ELSE UFloatVal(u)]
                ELSE [ok |-> FALSE, v |-> None]
      [] OTHER -> [ok |-> FALSE, v |-> None]

\* int(x): truncation of a float, parse of an integer literal
PyInt(x) ==
    CASE x.k = "int" -> [ok |-> TRUE, v |-> x]
      [] x.k = "float" ->
            [ok |-> TRUE,
             v |-> Int_(IF x.n < 0 THEN -((-x.n) \div Pow10(x.d)) ELSE x.n \div Pow10(x.d))]
      [] x.k = "str" ->
            LET t == Strip(x.s)
                neg == t # <<>> /\ Head(t) = "-"
                u == IF neg THEN Tail(t) ELSE t
            IN  IF u # <<>> /\ AllDigits(u)
                THEN [ok |-> TRUE, v |-> Int_(IF neg THEN -DigitsVal(u) ELSE DigitsVal(u))]
                ELSE [ok |-> FALSE, v |-> None]
      [] OTHER -> [ok |-> FALSE, v |-> None]

\* int(float(x))
PyIntFloat(x) ==
    LET f == PyFloat(x) IN IF f.ok THEN PyInt(f.v) ELSE [ok |-> FALSE, v |-> None]

----------------------------------------------------------------------------
(* Raw records: the items of the 'records' array of a response body.       *)
(* An item is a mapping (m = TRUE, f = its fields; record.get(key) of an   *)
(* absent key is None) or some other JSON value (m = FALSE).               *)

Mapping(fields) == [m |-> TRUE, f |-> fields]
NotMapping == [m |-> FALSE, f |-> [x \in {} |-> None]]
EmptyMapping == Mapping([x \in {} |-> None])

\* record.get(key)
Get(rec, key) == IF key \in DOMAIN rec.f THEN rec.f[key] ELSE None

SGoa == <<"G", "o", "a">>
SPanaji == <<"P", "a", "n", "a", "j", "i">>
SRice == <<"R", "i", "c", "e">>
SKharif == <<"K", "h", "a", "r", "i", "f">>
S1500 == <<"1", "5", "0", "0">>
SDash == <<"-">>
SAbc == <<"a", "b", "c">>
SNA == <<"N", "A">>
SDataGovIn == <<"d", "a", "t", "a", ".", "g", "o", "v", ".", "i", "n">>
SCropSource == SDataGovIn \o <<"_", "c", "r", "o", "p", "_", "p", "r", "o", "d", "u", "c", "t", "i", "o", "n">>

\* a record every normalizer accepts: names, a year and numbers under the
\* field names the variants read
WellFormed ==
    Mapping(("state" :> Str(SGoa)) @@ ("district" :> Str(SPanaji))
            @@ ("subdivision" :> Str(SGoa)) @@ ("crop" :> Str(SRice))
            @@ ("season" :> Str(SKharif)) @@ ("year" :> Int_(2010))
            @@ ("area" :> Str(S1500)) @@ ("production" :> Str(S1500))
            @@ ("avg_rainfall" :> Str(S1500)) @@ ("annual" :> Str(S1500))
            @@ ("wheat_in_metric_tonnes_" :> Str(S1500))
            @@ ("expenditure" :> Str(S1500)) @@ ("scheme" :> Str(SRice))
            @@ ("deaths" :> Str(S1500)) @@ ("damage_value" :> Str(S1500)))

----------------------------------------------------------------------------
(* fetch_data: the retry loop *)

\* a parsed JSON body; has = 'records' in data; json = what response.json() met
Body(recs) == [none |-> FALSE, has |-> TRUE, records |-> recs, json |-> "object"]
BodyNoRecords == [none |-> FALSE, has |-> FALSE, records |-> <<>>, json |-> "object"]
NoBody == [none |-> TRUE, has |-> FALSE, records |-> <<>>, json |-> "none"]
\* a JSON array of objects: `'records' in data` is False
BodyArray == [none |-> FALSE, has |-> FALSE, records |-> <<>>, json |-> "array"]
\* JSON null or a number: `'records' in data` raises TypeError
BodyScalar == [none |-> FALSE, has |-> FALSE, records |-> <<>>, json |-> "scalar"]
\* a body that is not JSON: response.json() raises
BodyInvalid == [none |-> FALSE, has |-> FALSE, records |-> <<>>, json |-> "invalid"]

\* what one requests.get / raise_for_status / response.json() can produce
Http(status, body) == [kind |-> "http", status |-> status, body |-> body]
TimeoutResp == [kind |-> "timeout", status |-> 0, body |-> NoBody]
\* any other exception raised by requests.get: connection error, ...
ExcResp == [kind |-> "exc", status |-> 0, body |-> NoBody]

FetchBodies ==
    {Body(<<WellFormed, WellFormed, WellFormed>>), Body(<<NotMapping, WellFormed>>),
     Body(<<EmptyMapping>>), Body(<<>>), BodyNoRecords,
     BodyArray, BodyScalar, BodyInvalid}

Responses ==
    {Http(200, b) : b \in FetchBodies}
    \cup {Http(404, NoBody), Http(429, NoBody), Http(500, NoBody), TimeoutResp, ExcResp}

\* 2 ** attempt
RECURSIVE Pow2(_)
Pow2(e) == IF e = 0 THEN 1 ELSE 2 * Pow2(e - 1)

\* time.sleep(2) after a timeout
TimeoutSleep == 2

\* a retry loop that treats 429 as terminal, like 404
FetchStep429Terminal(a, maxR, resp) ==
    IF resp.kind = "http" /\ resp.status = 200
    THEN IF resp.body.json \in {"invalid", "scalar"}
         THEN [ret |-> a = maxR - 1, val |-> NoBody, sleep |-> 0, raised |-> FALSE]
         ELSE IF resp.body.has /\ resp.body.records # <<>>
         THEN [ret |-> TRUE, val |-> resp.body, sleep |-> 0, raised |-> FALSE]
         ELSE [ret |-> TRUE, val |-> NoBody, sleep |-> 0, raised |-> FALSE]
    ELSE IF resp.kind = "http"
    THEN IF resp.status = 404
         THEN [ret |-> TRUE, val |-> NoBody, sleep |-> 0, raised |-> FALSE]
         ELSE IF resp.status = 429
         THEN [ret |-> TRUE, val |-> NoBody, sleep |-> 0, raised |-> FALSE]
         ELSE [ret |-> a = maxR - 1, val |-> NoBody, sleep |-> 0, raised |-> FALSE]
    ELSE IF resp.kind = "timeout"
    THEN [ret |-> FALSE, val |-> NoBody,
          sleep |-> IF a < maxR - 1 THEN TimeoutSleep ELSE 0, raised |-> FALSE]
    ELSE [ret |-> a = maxR - 1, val |-> NoBody, sleep |-> 0, raised |-> FALSE]

\* a retry loop that retries a 404 like any other HTTP error
FetchStep404Retried(a, maxR, resp) ==
    IF resp.kind = "http" /\ resp.status = 200
    THEN IF resp.body.json \in {"invalid", "scalar"}
         THEN [ret |-> a = maxR - 1, val |-> NoBody, sleep |-> 0, raised |-> FALSE]
         ELSE IF resp.body.has /\ resp.body.records # <<>>
         THEN [ret |-> TRUE, val |-> resp.body, sleep |-> 0, raised |-> FALSE]
         ELSE [ret |-> TRUE, val |-> NoBody, sleep |-> 0, raised |-> FALSE]
    ELSE IF resp.kind = "http"
    THEN IF resp.status = 404
         THEN [ret |-> a = maxR - 1, val |-> NoBody, sleep |-> 0, raised |-> FALSE]
         ELSE IF resp.status = 429
         THEN [ret |-> FALSE, val |-> NoBody, sleep |-> Pow2(a), raised |-> FALSE]
         ELSE [ret |-> a = maxR - 1, val |-> NoBody, sleep |-> 0, raised |-> FALSE]
    ELSE IF resp.kind = "timeout"
    THEN [ret |-> FALSE, val |-> NoBody,
          sleep |-> IF a < maxR - 1 THEN TimeoutSleep ELSE 0, raised |-> FALSE]
    ELSE [ret |-> a = maxR - 1, val |-> NoBody, sleep |-> 0, raised |-> FALSE]

\* a retry loop without the `except Exception` clause
FetchStepNoCatchAll(a, maxR, resp) ==
    IF resp.kind = "http" /\ resp.status = 200
    THEN IF resp.body.json \in {"invalid", "scalar"}
         THEN [ret |-> FALSE, val |-> NoBody, sleep |-> 0, raised |-> TRUE]
         ELSE IF resp.body.has /\ resp.body.records # <<>>
         THEN [ret |-> TRUE, val |-> resp.body, sleep |-> 0, raised |-> FALSE]
         ELSE [ret |-> TRUE, val |-> NoBody, sleep |-> 0, raised |-> FALSE]
    ELSE IF resp.kind = "http"
    THEN IF resp.status = 404
         THEN [ret |-> TRUE, val |-> NoBody, sleep |-> 0, raised |-> FALSE]
         ELSE IF resp.status = 429
         THEN [ret |-> FALSE, val |-> NoBody, sleep |-> Pow2(a), raised |-> FALSE]
         ELSE [ret |-> a = maxR - 1, val |-> NoBody, sleep |-> 0, raised |-> FALSE]
    ELSE IF resp.kind = "timeout"
    THEN [ret |-> FALSE, val |-> NoBody,
          sleep |-> IF a < maxR - 1 THEN TimeoutSleep ELSE 0, raised |-> FALSE]
    ELSE [ret |-> FALSE, val |-> NoBody, sleep |-> 0, raised |-> TRUE]

\* a retry loop that waits the same fixed time after every 429
FetchStep429FixedWait(a, maxR, resp) ==
    IF resp.kind = "http" /\ resp.status = 200
    THEN IF resp.body.json \in {"invalid", "scalar"}
         THEN [ret |-> a = maxR - 1, val |-> NoBody, sleep |-> 0, raised |-> FALSE]
         ELSE IF resp.body.has /\ resp.body.records # <<>>
         THEN [ret |-> TRUE, val |-> resp.body, sleep |-> 0, raised |-> FALSE]
         ELSE [ret |-> TRUE, val |-> NoBody, sleep |-> 0, raised |-> FALSE]
    ELSE IF resp.kind = "http"
    THEN IF resp.status = 404
         THEN [ret |-> TRUE, val |-> NoBody, sleep |-> 0, raised |-> FALSE]
         ELSE IF resp.status = 429
         THEN [ret |-> FALSE, val |-> NoBody, sleep |-> TimeoutSleep, raised |-> FALSE]
         ELSE [ret |-> a = maxR - 1, val |-> NoBody, sleep |-> 0, raised |-> FALSE]
    ELSE IF resp.kind = "timeout"
    THEN [ret |-> FALSE, val |-> NoBody,
          sleep |-> IF a < maxR - 1 THEN TimeoutSleep ELSE 0, raised |-> FALSE]
    ELSE [ret |-> a = maxR - 1, val |-> NoBody, sleep |-> 0, raised |-> FALSE]

\* One iteration of `for attempt in range(max_retries)` with loop variable a:
\* ret = TRUE when the iteration executes a return statement (value: val),
\* sleep = the seconds slept in the iteration (0: no sleep), raised = TRUE when
\* an exception leaves the try statement (no except clause handles it).
FetchStep(a, maxR, resp) ==
    IF resp.kind = "http" /\ resp.status = 200
    THEN IF resp.body.json \in {"invalid", "scalar"}
         THEN [ret |-> a = maxR - 1, val |-> NoBody, sleep |-> 0, raised |-> FALSE]
         ELSE IF resp.body.has /\ resp.body.records # <<>>
         THEN [ret |-> TRUE, val |-> resp.body, sleep |-> 0, raised |-> FALSE]
         ELSE [ret |-> TRUE, val |-> NoBody, sleep |-> 0, raised |-> FALSE]
    ELSE IF resp.kind = "http"
    THEN IF resp.status = 404
         THEN [ret |-> TRUE, val |-> NoBody, sleep |-> 0, raised |-> FALSE]
         ELSE IF resp.status = 429
         THEN [ret |-> FALSE, val |-> NoBody, sleep |-> Pow2(a), raised |-> FALSE]
         ELSE [ret |-> a = maxR - 1, val |-> NoBody, sleep |-> 0, raised |-> FALSE]
    ELSE IF resp.kind = "timeout"
    THEN [ret |-> FALSE, val |-> NoBody,
          sleep |-> IF a < maxR - 1 THEN TimeoutSleep ELSE 0, raised |-> FALSE]
    ELSE [ret |-> a = maxR - 1, val |-> NoBody, sleep |-> 0, raised |-> FALSE]

Request(a, resp) == [e |-> "request", a |-> a, resp |-> resp, secs |-> 0]
Sleep(a, secs) == [e |-> "sleep", a |-> a, resp |-> ExcResp, secs |-> secs]

\* the events of one iteration
StepEvents(a, resp, st) ==
    IF st.sleep > 0 THEN <<Request(a, resp), Sleep(a, st.sleep)>> ELSE <<Request(a, resp)>>

\* fetch_data, one loop iteration: the request of attempt `attempt` is answered
FetchAttempt ==
    /\ UNCHANGED <<schemaVars, helperVars, sqliteVars, concVars>>
    /\ pc = "fetch"
    /\ attempt < maxRetries
    /\ \E resp \in Responses :
         LET st == FetchStep(attempt, maxRetries, resp) IN
         /\ fetchLog' = fetchLog \o StepEvents(attempt, resp, st)
         /\ IF st.raised
            THEN /\ pc' = "fetch_raised"
                 /\ fetchRet' = fetchRet
                 /\ attempt' = attempt
            ELSE IF st.ret
            THEN /\ pc' = "fetch_ret"
                 /\ fetchRet' = st.val
                 /\ attempt' = attempt
            ELSE /\ pc' = "fetch"
                 /\ fetchRet' = fetchRet
                 /\ attempt' = attempt + 1
    /\ UNCHANGED <<maxRetries, dbVars, normVars, runVars, clock>>

\* fetch_data: range(max_retries) is exhausted, the final `return None`
FetchExhausted ==
    /\ UNCHANGED <<schemaVars, helperVars, sqliteVars, concVars>>
    /\ pc = "fetch"
    /\ attempt >= maxRetries
    /\ pc' = "fetch_ret"
    /\ fetchRet' = NoBody
    /\ UNCHANGED <<attempt, maxRetries, fetchLog, dbVars, normVars, runVars, clock>>

----------------------------------------------------------------------------
(* parse_numeric_keep_raw *)

\* str.lower() on the letters the strings of this model hold
LowerChar(c) ==
    CASE c = "A" -> "a" [] c = "C" -> "c" [] c = "D" -> "d" [] c = "E" -> "e"
      [] c = "G" -> "g" [] c = "H" -> "h" [] c = "K" -> "k" [] c = "L" -> "l"
      [] c = "N" -> "n" [] c = "O" -> "o" [] c = "P" -> "p" [] c = "R" -> "r"
      [] c = "S" -> "s" [] c = "T" -> "t" [] c = "U" -> "u" [] OTHER -> c

\* A character outside ASCII is written as its code point: "U+0130" is LATIN
\* CAPITAL LETTER I WITH DOT ABOVE, "U+0307" is COMBINING DOT ABOVE.
\* str.lower() of one character: U+0130 lowers to the two characters "i" U+0307
LowerOf(c) == IF c = "U+0130" THEN <<"i", "U+0307">> ELSE <<LowerChar(c)>>

\* str.lower()
RECURSIVE Lower(_)
Lower(s) == IF s = <<>> THEN <<>> ELSE LowerOf(Head(s)) \o Lower(Tail(s))

\* the strings parse_numeric_keep_raw treats as missing, besides ""
Sentinels ==
    {<<"n", "a">>, <<"n", "/", "a">>, <<"-">>, <<"n", "u", "l", "l">>,
     <<"n", "o", "n", "e">>}

IsDigitAt(s, i) == i >= 1 /\ i <= Len(s) /\ s[i] \in Digits

\* the last position of the run of digits that starts at i
RECURSIVE DigitRunEnd(_, _)
DigitRunEnd(s, i) == IF IsDigitAt(s, i + 1) THEN DigitRunEnd(s, i + 1) ELSE i

\* re.search(r"-?\d+(?:[\.,]\d+)?", raw): where the leftmost match starts (0: none)
MatchStart(s) ==
    LET starts == {i \in 1..Len(s) :
                      \/ IsDigitAt(s, i)
                      \/ s[i] = "-" /\ IsDigitAt(s, i + 1)}
    IN  IF starts = {} THEN 0 ELSE CHOOSE i \in starts : \A j \in starts : i <= j

\* ... and where it ends: the digits, then one "." or "," group if digits follow it
MatchEnd(s, i) ==
    LET d0 == IF s[i] = "-" THEN i + 1 ELSE i
        e1 == DigitRunEnd(s, d0)
    IN  IF e1 + 1 <= Len(s) /\ s[e1 + 1] \in {".", ","} /\ IsDigitAt(s, e1 + 2)
        THEN DigitRunEnd(s, e1 + 2)
        ELSE e1

\* token.replace(",", "")
RECURSIVE RemoveCommas(_)
RemoveCommas(s) ==
    IF s = <<>> THEN <<>>
    ELSE IF Head(s) = "," THEN RemoveCommas(Tail(s))
    ELSE <<Head(s)>> \o RemoveCommas(Tail(s))

\* a parse_numeric_keep_raw that keeps the surrounding whitespace in raw
parse_numeric_untrimmed(value) ==
    IF value.k = "none" THEN [num |-> None, raw |-> None]
    ELSE LET raw == StrOf(value) IN
         IF raw = <<>> \/ Lower(raw) \in Sentinels
         THEN [num |-> None, raw |-> Str(raw)]
         ELSE LET i == MatchStart(raw) IN
              IF i = 0 THEN [num |-> None, raw |-> Str(raw)]
              ELSE LET token == RemoveCommas(SubSeq(raw, i, MatchEnd(raw, i)))
                       f == PyFloat(Str(token))
                   IN  IF f.ok THEN [num |-> f.v, raw |-> Str(raw)]
                       ELSE [num |-> None, raw |-> Str(raw)]

\* parse_numeric_keep_raw(value) = (num, raw)
parse_numeric_keep_raw(value) ==
    IF value.k = "none" THEN [num |-> None, raw |-> None]
    ELSE LET raw == Strip(StrOf(value)) IN
         IF raw = <<>> \/ Lower(raw) \in Sentinels
         THEN [num |-> None, raw |-> Str(raw)]
         ELSE LET i == MatchStart(raw) IN
              IF i = 0 THEN [num |-> None, raw |-> Str(raw)]
              ELSE LET token == RemoveCommas(SubSeq(raw, i, MatchEnd(raw, i)))
                       f == PyFloat(Str(token))
                   IN  IF f.ok THEN [num |-> f.v, raw |-> Str(raw)]
                       ELSE [num |-> None, raw |-> Str(raw)]

----------------------------------------------------------------------------
(* clean_column_name *)

\* the letters the strings of this model hold
Letters ==
    {"A", "C", "D", "E", "G", "H", "K", "L", "N", "O", "P", "R", "S", "T", "U",
     "a", "b", "c", "d", "e", "g", "h", "i", "j", "k", "l", "n", "o", "p", "r",
     "s", "t", "u", "U+0130"}

\* \w: letters, digits and the underscore; a combining mark is not a word
\* character
IsWord(c) == c \in Letters \cup Digits \cup {"_"}

\* re.sub(r"[^\w\s]", "_", s)
NonWordToUnderscore(s) ==
    [i \in 1..Len(s) |-> IF IsWord(s[i]) \/ IsSpace(s[i]) THEN s[i] ELSE "_"]

\* re.sub(r"\s+", "_", s)
RECURSIVE SpacesToUnderscore(_)
SpacesToUnderscore(s) ==
    IF s = <<>> THEN <<>>
    ELSE IF IsSpace(Head(s)) THEN <<"_">> \o SpacesToUnderscore(LStrip(s))
    ELSE <<Head(s)>> \o SpacesToUnderscore(Tail(s))

\* re.sub(r"_+", "_", s)
RECURSIVE CollapseUnderscores(_)
CollapseUnderscores(s) ==
    IF s = <<>> THEN <<>>
    ELSE IF Head(s) = "_" /\ Len(s) > 1 /\ s[2] = "_" THEN CollapseUnderscores(Tail(s))
    ELSE <<Head(s)>> \o CollapseUnderscores(Tail(s))

\* s.strip("_")
RECURSIVE StripUnderscores(_)
StripUnderscores(s) ==
    IF s # <<>> /\ Head(s) = "_" THEN StripUnderscores(Tail(s))
    ELSE IF s # <<>> /\ s[Len(s)] = "_" THEN StripUnderscores(SubSeq(s, 1, Len(s) - 1))
    ELSE s

\* clean_column_name(col)
clean_column_name(col) ==
    IF ~Truthy(col) THEN col
    ELSE Str(Lower(StripUnderscores(CollapseUnderscores(SpacesToUnderscore(
             NonWordToUnderscore(Strip(StrOf(col))))))))

----------------------------------------------------------------------------
(* The record normalizers.  The outcome of one record is                   *)
(*   out = "row"     : a tuple is appended (row)                           *)
(*   out = "missing" : the variant's skipped-no-state counter is increased *)
(*   out = "dropped" : the final `if` is false: nothing appended, nothing  *)
(*                     counted                                             *)
(*   out = "error"   : the record's except branch ran                      *)

Row(r) == [out |-> "row", row |-> r]
Missing == [out |-> "missing", row |-> <<>>]
Dropped == [out |-> "dropped", row |-> <<>>]
Error == [out |-> "error", row |-> <<>>]

EmptyStr == Str(<<>>)

\* record.get(k1) or record.get(k2) or ... or last
RECURSIVE OrChain(_, _, _)
OrChain(rec, keys, last) ==
    IF keys = <<>> THEN last
    ELSE IF Truthy(Get(rec, Head(keys))) THEN Get(rec, Head(keys))
    ELSE OrChain(rec, Tail(keys), last)

\* (v).strip(): AttributeError on a value that is no string
StripOf(v) ==
    IF v.k = "str" THEN [ok |-> TRUE, v |-> Str(Strip(v.s))] ELSE [ok |-> FALSE, v |-> None]

\* (record.get(..) or ... or '').strip()
StrField(rec, keys) == StripOf(OrChain(rec, keys, EmptyStr))

FloatZero == Float(0, 0)

\* a + b on floats
FAdd(a, b) ==
    LET dd == IF a.d > b.d THEN a.d ELSE b.d IN
    Float(a.n * Pow10(dd - a.d) + b.n * Pow10(dd - b.d), dd)

RECURSIVE FSum(_)
FSum(vs) == IF vs = <<>> THEN FloatZero ELSE FAdd(Head(vs), FSum(Tail(vs)))

\* datetime.now().year
CurrentYear == 2026

SNull == <<"n", "u", "l", "l">>
SNSlashA == <<"N", "/", "A">>
SZero == <<"0">>

\* normalize_crop_data: area / production
\*   s = str(a or b or '0'); float(s) if s not in ['NA', 'N/A', '', 'null'] else 0.0
CropNumber(rec, keys) ==
    LET s == StrOf(OrChain(rec, keys, Str(SZero))) IN
    IF s \in {SNA, SNSlashA, <<>>, SNull} THEN [ok |-> TRUE, v |-> FloatZero]
    ELSE PyFloat(Str(s))

\* normalize_crop_data, the body of the loop for one record
CropRecord(rec, now) ==
    IF ~rec.m THEN Error
    ELSE
    LET state == StrField(rec, <<"state_name", "State", "state">>)
        district == StrField(rec, <<"district_name", "District", "district">>)
        crop == StrField(rec, <<"crop", "Crop">>)
        season == StrField(rec, <<"season", "Season">>)
        year_val == OrChain(rec, <<"year", "Year", "crop_year">>, Int_(0))
        year == IF Truthy(year_val) THEN PyInt(year_val) ELSE [ok |-> TRUE, v |-> Int_(0)]
        area == CropNumber(rec, <<"area", "Area">>)
        production == CropNumber(rec, <<"production", "Production">>)
    IN  IF ~(state.ok /\ district.ok /\ crop.ok /\ season.ok /\ year.ok
             /\ area.ok /\ production.ok)
        THEN Error
        ELSE IF Truthy(state.v) /\ year.v.n > 0
        THEN Row(<<state.v, district.v, crop.v, season.v, year.v, area.v, production.v,
                   Str(SCropSource), Time(now)>>)
        ELSE Dropped

Months == <<"jan", "feb", "mar", "apr", "may", "jun",
            "jul", "aug", "sep", "oct", "nov", "dec">>

\* normalize_rainfall_district_data: one month
\*   try: float(s) if s not in ['NA', '', 'null'] else 0.0  except: 0.0
MonthValue(rec, month, upper) ==
    LET s == StrOf(OrChain(rec, <<month, upper>>, Str(SZero)))
        f == PyFloat(Str(s))
    IN  IF s \in {SNA, <<>>, SNull} THEN FloatZero
        ELSE IF f.ok THEN f.v ELSE FloatZero

MonthsUpper == <<"JAN", "FEB", "MAR", "APR", "MAY", "JUN",
                 "JUL", "AUG", "SEP", "OCT", "NOV", "DEC">>

\* normalize_rainfall_district_data, the body of the loop for one record
RainfallDistrictRecord(rec, now) ==
    IF ~rec.m THEN Error
    ELSE
    LET subdivision == StrField(rec, <<"subdivision", "SUBDIVISION", "district_name",
                                       "District", "district", "state_ut_name",
                                       "State", "state_ut">>)
        year_raw == OrChain(rec, <<"year", "YEAR">>, Int_(CurrentYear))
        yf == PyFloat(year_raw)
        year == IF yf.ok THEN yf.v ELSE Float(CurrentYear, 0)
        rainfall_values == [i \in 1..12 |-> MonthValue(rec, Months[i], MonthsUpper[i])]
        annual_str == StrOf(OrChain(rec, <<"annual", "ANNUAL">>, Str(SZero)))
        af == PyFloat(Str(annual_str))
        annual == IF annual_str \in {SNA, <<>>, SNull} THEN FSum(rainfall_values)
                  ELSE IF af.ok THEN af.v ELSE FSum(rainfall_values)
    IN  IF ~subdivision.ok THEN Error
        ELSE IF Truthy(subdivision.v)
        THEN Row(<<subdivision.v, year>> \o rainfall_values \o <<annual>>)
        ELSE Dropped

\* normalize_production_crop_specific: to_int(value)
to_int(value) ==
    IF value.k = "none" \/ (value.k = "str" /\ value.s \in
           {<<>>, SNA, SNull, <<"N", "u", "l", "l">>, <<"N", "U", "L", "L">>})
    THEN Int_(0)
    ELSE LET i == PyIntFloat(value) IN IF i.ok THEN i.v ELSE Int_(0)

CropSpecificFields ==
    <<"wheat_in_metric_tonnes_", "maize_in_metric_tonnes_", "rice_in_metric_tonnes_",
      "barley_in_metric_tonnes_", "ragi_in_metric_tonnes_", "pulses_in_metric_tonnes_",
      "common_millets_in_metric_tonnes_", "total_food_grains_in_metric_tonnes_",
      "chillies_in_metric_tonnes_", "ginger_in_metric_tonnes_",
      "oil_seeds_in_metric_tonnes_">>

\* normalize_production_crop_specific, the body of the loop for one record
CropSpecificRecord(rec, now) ==
    IF ~rec.m THEN Error
    ELSE
    LET state == StrField(rec, <<"state", "State", "state_ut">>)
        district == StrField(rec, <<"district", "District", "district_name">>)
    IN  IF ~(state.ok /\ district.ok) THEN Error
        ELSE IF ~Truthy(state.v) \/ ~Truthy(district.v) THEN Missing
        ELSE Row(<<state.v, district.v>>
                 \o [i \in 1..Len(CropSpecificFields) |->
                        to_int(Get(rec, CropSpecificFields[i]))])

\* s[:n] and s[a:b] of Python, on positions counted from 0
Slice(s, a, b) == SubSeq(s, a + 1, IF b < Len(s) THEN b ELSE Len(s))

\* datetime.strptime(str(n), "%m").strftime("%b"): ValueError unless 1 <= n <= 12
MonthAbbr(n) ==
    CASE n = 1 -> <<"J", "a", "n">> [] n = 2 -> <<"F", "e", "b">>
      [] n = 3 -> <<"M", "a", "r">> [] n = 4 -> <<"A", "p", "r">>
      [] n = 5 -> <<"M", "a", "y">> [] n = 6 -> <<"J", "u", "n">>
      [] n = 7 -> <<"J", "u", "l">> [] n = 8 -> <<"A", "u", "g">>
      [] n = 9 -> <<"S", "e", "p">> [] n = 10 -> <<"O", "c", "t">>
      [] n = 11 -> <<"N", "o", "v">> [] n = 12 -> <<"D", "e", "c">>
      [] OTHER -> <<>>

\* normalize_Agency_Rainfall_data, the body of the loop for one record
AgencyRainfallRecord(rec, now) ==
    IF ~rec.m THEN Error
    ELSE
    LET state == StrField(rec, <<"state", "State", "state_ut", "State/UT">>)
        district == StrField(rec, <<"district", "District", "district_name">>)
        date_str == Strip(StrOf(OrChain(rec, <<"date", "Date", "observation_date">>,
                                        EmptyStr)))
        year_rec == OrChain(rec, <<"year">>, Get(rec, "Year"))
        from_date == PyInt(Str(Slice(date_str, 0, 4)))
        year_val == IF ~Truthy(year_rec) /\ date_str # <<>>
                    THEN (IF from_date.ok THEN from_date.v ELSE None)
                    ELSE year_rec
        year == IF Truthy(year_val) THEN PyInt(year_val) ELSE [ok |-> TRUE, v |-> None]
        month_rec == StrField(rec, <<"month", "Month">>)
        month_num == PyInt(Str(Slice(date_str, 5, 7)))
        month == IF month_rec.ok /\ ~Truthy(month_rec.v) /\ date_str # <<>>
                 THEN (IF month_num.ok THEN Str(MonthAbbr(month_num.v.n)) ELSE EmptyStr)
                 ELSE month_rec.v
        rf == PyFloat(OrChain(rec, <<"avg_rainfall", "rainfall_mm", "rainfall">>, Int_(0)))
        avg_rainfall == IF rf.ok THEN rf.v ELSE FloatZero
        agency == StrField(rec, <<"agency", "Agency", "source", "data_source">>)
    IN  IF ~(state.ok /\ district.ok) THEN Error
        ELSE IF ~Truthy(state.v) THEN Missing
        ELSE IF ~(year.ok /\ month_rec.ok /\ agency.ok) THEN Error
        ELSE IF Truthy(state.v) /\ Truthy(year.v)
        THEN Row(<<state.v, district.v, Str(date_str), year.v, month, avg_rainfall,
                   agency.v>>)
        ELSE Dropped

\* try: int(float(yraw)) if yraw not in (None, "") else None  except: None
YearOrNone(yraw) ==
    IF yraw.k = "none" \/ (yraw.k = "str" /\ yraw.s = <<>>) THEN None
    ELSE LET i == PyIntFloat(yraw) IN IF i.ok THEN i.v ELSE None

\* int(v) if v is not None else None
IntOrNone(v) == IF v.k = "none" THEN None ELSE PyInt(v).v

\* normalize_climate_expenditure_data, the body of the loop for one record
ClimateExpenditureRecord(rec, now) ==
    IF ~rec.m THEN Error
    ELSE
    LET year == YearOrNone(OrChain(rec, <<"year", "Year", "financial_year">>, None))
        scheme == StrField(rec, <<"scheme", "scheme_name", "Schemes">>)
        category == StrField(rec, <<"category", "type">>)
        exp == parse_numeric_keep_raw(
                   OrChain(rec, <<"expenditure", "Actual_Expenditure",
                                  "Actual_Expenditure_INR", "amount">>, None))
        source == OrChain(rec, <<"source", "data_source">>, Str(SDataGovIn))
    IN  IF ~(scheme.ok /\ category.ok) THEN Error
        ELSE Row(<<year, scheme.v, category.v, exp.num, exp.raw, source, Time(now)>>)

\* normalize_damages_floods_data: s_no
SerialNumber(rec) ==
    LET val == OrChain(rec, <<"s_no", "S.No">>, Get(rec, "sl_no")) IN
    IF ~Truthy(val) THEN None
    ELSE IF val.k = "str" /\ val.s = SNA THEN None
    ELSE LET i == PyIntFloat(val) IN IF i.ok THEN i.v ELSE None

\* normalize_damages_floods_data, the body of the loop for one record
DamagesFloodsRecord(rec, now) ==
    IF ~rec.m THEN Error
    ELSE
    LET year == YearOrNone(OrChain(rec, <<"year", "Year">>, Get(rec, "Year_of_event")))
        s_no == SerialNumber(rec)
        state_ut == StrField(rec, <<"state", "state_ut", "State/UT", "State">>)
        area == parse_numeric_keep_raw(
                    OrChain(rec, <<"area_affected", "area">>,
                            Get(rec, "area_affected_hectare")))
        damage_crop == parse_numeric_keep_raw(
                    OrChain(rec, <<"damage_to_crops_area", "damage_to_crops">>,
                            Get(rec, "damage_to_crop_hectare")))
        livestock == parse_numeric_keep_raw(
                    OrChain(rec, <<"livestock_loss">>, Get(rec, "livestock_loss_count")))
        human_lives == parse_numeric_keep_raw(
                    OrChain(rec, <<"human_losses">>, Get(rec, "human_lives_lost")))
        source == OrChain(rec, <<"source", "data_source">>, Str(SDataGovIn))
    IN  IF ~state_ut.ok THEN Error
        ELSE Row(<<year, s_no, state_ut.v, area.num, area.raw,
                   damage_crop.num, damage_crop.raw,
                   IntOrNone(livestock.num), livestock.raw,
                   IntOrNone(human_lives.num), human_lives.raw, source, Time(now)>>)

\* normalize_damages_rainfall_data, the body of the loop for one record
DamagesRainfallRecord(rec, now) ==
    IF ~rec.m THEN Error
    ELSE
    LET year == YearOrNone(OrChain(rec, <<"year", "Year">>, None))
        state_ut == StrField(rec, <<"state", "state_ut", "State">>)
        dmg_area == parse_numeric_keep_raw(
                    OrChain(rec, <<"area_affected", "crop_damage_area">>,
                            Get(rec, "Damage_to_Crops_area")))
        dmg_value == parse_numeric_keep_raw(
                    OrChain(rec, <<"damage_value", "Damage_to_Crops">>,
                            Get(rec, "damage_to_crops_value")))
        rainfall_type == StrField(rec, <<"rainfall_type", "type">>)
        source == OrChain(rec, <<"source">>, Str(SDataGovIn))
    IN  IF ~(state_ut.ok /\ rainfall_type.ok) THEN Error
        ELSE Row(<<year, state_ut.v, dmg_area.num, dmg_area.raw, dmg_value.num,
                   dmg_value.raw, rainfall_type.v, source, Time(now)>>)

\* normalize_extreme_temperature_data: year, with its fallback to the date
ExtremeYear(rec) ==
    LET yraw == OrChain(rec, <<"year", "Year", "date">>, None)
        i == PyIntFloat(yraw)
        d == StrOf(OrChain(rec, <<"date", "Date">>, EmptyStr))
        from_date == PyInt(Str(Slice(d, 0, 4)))
    IN  IF yraw.k = "none" \/ (yraw.k = "str" /\ yraw.s = <<>>) THEN None
        ELSE IF i.ok THEN i.v
        ELSE IF d # <<>> /\ from_date.ok THEN from_date.v
        ELSE None

\* normalize_extreme_temperature_data, the body of the loop for one record
ExtremeTemperatureRecord(rec, now) ==
    IF ~rec.m THEN Error
    ELSE
    LET year == ExtremeYear(rec)
        state_ut == StrField(rec, <<"state", "State", "state_ut">>)
        event_type == StrField(rec, <<"event", "extreme_event_type", "type">>)
        days == parse_numeric_keep_raw(
                    OrChain(rec, <<"days", "no_of_days">>, Get(rec, "event_days")))
        deaths == parse_numeric_keep_raw(
                    OrChain(rec, <<"deaths", "no_of_deaths">>, Get(rec, "fatalities")))
        source == OrChain(rec, <<"source">>, Str(SDataGovIn))
    IN  IF ~(state_ut.ok /\ event_type.ok) THEN Error
        ELSE Row(<<year, state_ut.v, event_type.v, IntOrNone(days.num), days.raw,
                   IntOrNone(deaths.num), deaths.raw, source, Time(now)>>)

\* normalize_drought_cases_data, the body of the loop for one record
DroughtCasesRecord(rec, now) ==
    IF ~rec.m THEN Error
    ELSE
    LET year == YearOrNone(OrChain(rec, <<"year", "Year">>, None))
        state_ut == StrField(rec, <<"state", "State", "state_ut">>)
        severity == StrField(rec, <<"severity", "drought_severity">>)
        area == parse_numeric_keep_raw(
                    OrChain(rec, <<"area_affected", "area">>,
                            Get(rec, "area_affected_hectare")))
        crop_loss == parse_numeric_keep_raw(
                    OrChain(rec, <<"crop_loss_value", "crop_loss_value_crore">>,
                            Get(rec, "loss_value")))
        source == OrChain(rec, <<"source">>, Str(SDataGovIn))
    IN  IF ~(state_ut.ok /\ severity.ok) THEN Error
        ELSE Row(<<year, state_ut.v, severity.v, area.num, area.raw, crop_loss.num,
                   crop_loss.raw, source, Time(now)>>)

\* the normalizer variants, named by the source key they serve
Variants ==
    {"crop_production", "rainfall_district", "production_crop_specific",
     "Agency_Rainfall", "climate_expenditure", "damages_floods",
     "damages_rainfall", "extreme_temperature", "drought_cases"}

RecordOutcome(variant, rec, now) ==
    CASE variant = "crop_production" -> CropRecord(rec, now)
      [] variant = "rainfall_district" -> RainfallDistrictRecord(rec, now)
      [] variant = "production_crop_specific" -> CropSpecificRecord(rec, now)
      [] variant = "Agency_Rainfall" -> AgencyRainfallRecord(rec, now)
      [] variant = "climate_expenditure" -> ClimateExpenditureRecord(rec, now)
      [] variant = "damages_floods" -> DamagesFloodsRecord(rec, now)
      [] variant = "damages_rainfall" -> DamagesRainfallRecord(rec, now)
      [] variant = "extreme_temperature" -> ExtremeTemperatureRecord(rec, now)
      [] variant = "drought_cases" -> DroughtCasesRecord(rec, now)

\* the variants that keep skipped_no_state / skipped_errors counters
HasCounters(variant) == variant \in {"production_crop_specific", "Agency_Rainfall"}

\* list(records[0].keys()) before the loop, outside any try
PreLoopRaises(variant, records) ==
    HasCounters(variant) /\ records # <<>> /\ ~records[1].m

RECURSIVE CountOut(_, _)
CountOut(outs, kind) ==
    IF outs = <<>> THEN 0
    ELSE (IF Head(outs).out = kind THEN 1 ELSE 0) + CountOut(Tail(outs), kind)

\* a row list that leaves out a row equal to a later one
RECURSIVE RowsOfDistinct(_)
RowsOfDistinct(outs) ==
    IF outs = <<>> THEN <<>>
    ELSE LET rest == RowsOfDistinct(Tail(outs)) IN
         IF Head(outs).out = "row" /\ \A i \in 1..Len(rest) : rest[i] # Head(outs).row
         THEN <<Head(outs).row>> \o rest
         ELSE rest

\* normalized, as the appends of the loop leave it
RECURSIVE RowsOf(_)
RowsOf(outs) ==
    IF outs = <<>> THEN <<>>
    ELSE (IF Head(outs).out = "row" THEN <<Head(outs).row>> ELSE <<>>) \o RowsOf(Tail(outs))

\* a normalizer call: the list it returns and the counters it prints; raised:
\* an exception leaves the normalizer
Normalize(variant, records, now) ==
    IF PreLoopRaises(variant, records)
    THEN [done |-> TRUE, rows |-> <<>>, missing |-> 0, errors |-> 0, raised |-> TRUE]
    ELSE LET outs == [i \in 1..Len(records) |-> RecordOutcome(variant, records[i], now)]
         IN  [done |-> TRUE, rows |-> RowsOf(outs),
              missing |-> CountOut(outs, "missing"),
              errors |-> IF HasCounters(variant) THEN CountOut(outs, "error") ELSE 0,
              raised |-> FALSE]

----------------------------------------------------------------------------
(* The database: destination tables and data_metadata *)

\* DATA_SOURCES.items(), in order; every table_name equals its source key
SourceOrder ==
    <<"crop_production", "rainfall_district", "production_crop_specific",
      "Agency_Rainfall", "climate_expenditure", "damages_floods",
      "damages_rainfall", "extreme_temperature", "drought_cases">>

SourceKeys == {SourceOrder[i] : i \in 1..Len(SourceOrder)}

TableNames == SourceKeys

\* the columns _init_database declares (besides id), spelled as declared
TableColumns(t) ==
    CASE t = "crop_production" ->
            {"state", "district", "crop", "season", "year", "area", "production",
             "data_source", "fetch_timestamp"}
      [] t = "rainfall_district" ->
            {"SUBDIVISION", "YEAR", "annual"} \cup {Months[i] : i \in 1..12}
      [] t = "production_crop_specific" ->
            {"State", "District", "Wheat", "Maize", "Rice", "Barley", "Ragi", "Pulses",
             "common_millets", "Total", "Chillies", "Ginger", "Oil_seeds"}
      [] t = "Agency_Rainfall" ->
            {"State", "District", "Date", "Year", "Month", "Avg_rainfall",
             "Agency_name", "fetch_timestamp"}
      [] t = "climate_expenditure" ->
            {"year", "scheme_name", "category", "expenditure_crore",
             "expenditure_crore_raw", "source", "fetch_timestamp"}
      [] t = "damages_floods" ->
            {"year", "s_no", "state_ut", "area_affected_hectare",
             "area_affected_hectare_raw", "damage_to_crop_hectare",
             "damage_to_crop_hectare_raw", "livestock_loss_count",
             "livestock_loss_count_raw", "human_lives_lost", "human_lives_lost_raw",
             "source", "fetch_timestamp"}
      [] t = "damages_rainfall" ->
            {"year", "state_ut", "crop_damage_hectare", "crop_damage_hectare_raw",
             "crop_damage_value_crore", "crop_damage_value_crore_raw", "rainfall_type",
             "source", "fetch_timestamp"}
      [] t = "extreme_temperature" ->
            {"year", "state_ut", "extreme_event_type", "event_days", "event_days_raw",
             "deaths", "deaths_raw", "source", "fetch_timestamp"}
      [] t = "drought_cases" ->
            {"year", "state_ut", "drought_severity", "area_affected_hectare",
             "area_affected_hectare_raw", "crop_loss_value_crore",
             "crop_loss_value_crore_raw", "source", "fetch_timestamp"}

\* no row of data_metadata for a table
NoRow == [present |-> FALSE, last_updated |-> 0, record_count |-> 0, fetch_status |-> ""]

EmptyTables == [t \in TableNames |-> <<>>]
EmptyMetadata == [t \in TableNames |-> NoRow]

\* Where a database-level failure is injected into one save_to_database call:
\*   "connect": sqlite3.connect raises
\*   "insert" : executemany, or the commit after it, raises
\*   "upsert" : the metadata INSERT OR REPLACE, or the commit after it, raises
DbFaults == {"none", "connect", "insert", "upsert"}

\* executemany binds every tuple to the placeholders of `columns` and the
\* statement names only columns of the table; otherwise it raises
InsertAccepted(t, data, columns) ==
    /\ \A i \in 1..Len(columns) : columns[i] \in TableColumns(t)
    /\ \A i \in 1..Len(data) : Len(data[i]) = Len(columns)

\* (SELECT COUNT(*) FROM table) as the upsert evaluates it
CountRows(tbls, t) == Len(tbls[t])

\* a metadata upsert that adds the batch size to the stored count instead of
\* counting the table
UpsertMetadataIncrement(meta, tbls, t, data, now) ==
    [meta EXCEPT ![t] = [present |-> TRUE, last_updated |-> now,
                         record_count |-> meta[t].record_count + Len(data),
                         fetch_status |-> "success"]]

\* a metadata upsert that stores the size of the batch as the count
UpsertMetadataBatchSize(meta, tbls, t, data, now) ==
    [meta EXCEPT ![t] = [present |-> TRUE, last_updated |-> now,
                         record_count |-> Len(data),
                         fetch_status |-> "success"]]

\* INSERT OR REPLACE INTO data_metadata ...: table_name is UNIQUE, so the row of
\* the table is replaced
UpsertMetadata(meta, tbls, t, data, now) ==
    [meta EXCEPT ![t] = [present |-> TRUE, last_updated |-> now,
                         record_count |-> CountRows(tbls, t),
                         fetch_status |-> "success"]]

\* a connection is open after these sqlite3 calls: the last connect was not
\* followed by a close
StillOpen(conn) ==
    \E i \in 1..Len(conn) :
        /\ conn[i] = "connect"
        /\ \A j \in (i + 1)..Len(conn) : conn[j] # "close"

\* a save_to_database whose except branch rolls back without closing
SaveConnectedLeakOnError(tbls, meta, t, data, columns, fault, now) ==
    IF fault = "connect"
    THEN [tables |-> tbls, metadata |-> meta, raised |-> TRUE,
          count |-> 0, status |-> "", conn |-> <<>>]
    ELSE IF fault = "insert" \/ ~InsertAccepted(t, data, columns)
    THEN [tables |-> tbls, metadata |-> meta, raised |-> FALSE,
          count |-> 0, status |-> "Error: insert",
          conn |-> <<"connect", "rollback">>]
    ELSE LET committed == [tbls EXCEPT ![t] = tbls[t] \o data] IN
         IF fault = "upsert"
         THEN [tables |-> committed, metadata |-> meta, raised |-> FALSE,
               count |-> 0, status |-> "Error: upsert",
               conn |-> <<"connect", "commit", "rollback">>]
         ELSE [tables |-> committed,
               metadata |-> UpsertMetadata(meta, committed, t, data, now),
               raised |-> FALSE, count |-> Len(data), status |-> "success",
               conn |-> <<"connect", "commit", "commit", "close">>]

\* save_to_database from sqlite3.connect on, under a fault: the database after
\* the call, what the call returns (raised: the exception escapes) and the
\* calls made on the connection
SaveConnected(tbls, meta, t, data, columns, fault, now) ==
    IF fault = "connect"
    THEN [tables |-> tbls, metadata |-> meta, raised |-> TRUE,
          count |-> 0, status |-> "", conn |-> <<>>]
    ELSE IF fault = "insert" \/ ~InsertAccepted(t, data, columns)
    THEN \* nothing was committed: rollback() undoes the rows executemany inserted
         [tables |-> tbls, metadata |-> meta, raised |-> FALSE,
          count |-> 0, status |-> "Error: insert",
          conn |-> <<"connect", "rollback", "close">>]
    ELSE LET committed == [tbls EXCEPT ![t] = tbls[t] \o data] IN
         IF fault = "upsert"
         THEN \* the rows were committed at the first conn.commit(): rollback()
              \* only undoes the metadata statement
              [tables |-> committed, metadata |-> meta, raised |-> FALSE,
               count |-> 0, status |-> "Error: upsert",
               conn |-> <<"connect", "commit", "rollback", "close">>]
         ELSE [tables |-> committed,
               metadata |-> UpsertMetadata(meta, committed, t, data, now),
               raised |-> FALSE, count |-> Len(data), status |-> "success",
               conn |-> <<"connect", "commit", "commit", "close">>]

\* a save_to_database without the `if not data` return
SaveOutcomeNoEmptyCheck(tbls, meta, t, data, columns, fault, now) ==
    SaveConnected(tbls, meta, t, data, columns, fault, now)

\* save_to_database(table_name, data, columns)
SaveOutcome(tbls, meta, t, data, columns, fault, now) ==
    IF data = <<>>
    THEN [tables |-> tbls, metadata |-> meta, raised |-> FALSE,
          count |-> 0, status |-> "No data to save", conn |-> <<>>]
    ELSE SaveConnected(tbls, meta, t, data, columns, fault, now)

\* no save_to_database call made yet
NoSave == [called |-> FALSE, table |-> "", data |-> <<>>, fault |-> "none",
           before |-> EmptyTables, metaBefore |-> EmptyMetadata,
           raised |-> FALSE, count |-> 0, status |-> ""]

SaveRecord(t, data, fault, out) ==
    [called |-> TRUE, table |-> t, data |-> data, fault |-> fault,
     before |-> tables, metaBefore |-> metadata,
     raised |-> out.raised, count |-> out.count, status |-> out.status]

\* the tables and column lists direct callers pass in this model
DirectTables == {"crop_production", "drought_cases"}

DirectColumns(t) ==
    IF t = "crop_production" THEN <<"state", "fetch_timestamp">>
    ELSE <<"state_ut", "fetch_timestamp">>

\* a batch of n rows for DirectColumns; bad: its last tuple is one value short
DirectBatch(n, now, bad) ==
    [i \in 1..n |-> IF bad /\ i = n THEN <<Str(SGoa)>> ELSE <<Str(SGoa), Time(now)>>]

\* save_to_database called by a client
SaveToDatabase ==
    /\ UNCHANGED <<schemaVars, helperVars, sqliteVars, concVars>>
    /\ pc = "idle"
    /\ clock < MaxCalls
    /\ \E t \in DirectTables, n \in 0..MaxBatch, bad \in BOOLEAN, fault \in DbFaults :
         \E data \in {DirectBatch(n, clock, bad)} :
         \E out \in {SaveOutcome(tables, metadata, t, data, DirectColumns(t), fault,
                                 clock)} :
             /\ tables' = out.tables
             /\ metadata' = out.metadata
             /\ saveRet' = SaveRecord(t, data, fault, out)
             /\ connOpen' = StillOpen(out.conn)
    /\ clock' = clock + 1
    /\ UNCHANGED <<pc, fetchVars, normVars, runVars>>

MetadataTable == "data_metadata"

\* the tables _init_database creates, in statement order
CreatedTables ==
    <<"crop_production", "rainfall_district", "production_crop_specific",
      "Agency_Rainfall", "climate_expenditure", "damages_floods",
      "damages_rainfall", "extreme_temperature", "drought_cases", MetadataTable>>

AllTables == {CreatedTables[i] : i \in 1..Len(CreatedTables)}

\* an _init_database whose statements are CREATE TABLE without IF NOT EXISTS:
\* the first table that already exists raises "table ... already exists"
InitDatabasePlainCreate(sch, tbls, meta) ==
    [schema |-> sch \cup AllTables, tables |-> tbls, metadata |-> meta,
     raised |-> sch \cap AllTables # {},
     conn |-> IF sch \cap AllTables # {} THEN <<"connect">>
              ELSE <<"connect", "commit", "close">>]

\* an _init_database that also seeds data_metadata with a row for every table
\* that has none
InitDatabaseSeedsMetadata(sch, tbls, meta) ==
    [schema |-> sch \cup AllTables, tables |-> tbls,
     metadata |-> [t \in TableNames |->
                      IF meta[t].present THEN meta[t]
                      ELSE [present |-> TRUE, last_updated |-> 0, record_count |-> 0,
                            fetch_status |-> "pending"]],
     raised |-> FALSE, conn |-> <<"connect", "commit", "close">>]

\* _init_database: every statement is CREATE TABLE IF NOT EXISTS, so a table
\* that exists is left as it is and a missing one is created empty
InitDatabaseOutcome(sch, tbls, meta) ==
    [schema |-> sch \cup AllTables, tables |-> tbls, metadata |-> meta,
     raised |-> FALSE, conn |-> <<"connect", "commit", "close">>]

\* no _init_database call made yet
NoInit == [called |-> FALSE, schemaBefore |-> {}, before |-> EmptyTables,
           metaBefore |-> EmptyMetadata, after |-> EmptyTables,
           metaAfter |-> EmptyMetadata, raised |-> FALSE]

InitRecord(out) ==
    [called |-> TRUE, schemaBefore |-> schema, before |-> tables,
     metaBefore |-> metadata, after |-> out.tables, metaAfter |-> out.metadata,
     raised |-> out.raised]

\* _init_database called again on the running object
InitDatabase ==
    /\ pc = "idle"
    /\ clock < MaxCalls
    /\ \E out \in {InitDatabaseOutcome(schema, tables, metadata)} :
         /\ schema' = out.schema
         /\ tables' = out.tables
         /\ metadata' = out.metadata
         /\ initRet' = InitRecord(out)
         /\ connOpen' = StillOpen(out.conn)
    /\ clock' = clock + 1
    /\ UNCHANGED <<pc, saveRet, fetchVars, normVars, runVars, helperVars,
                   sqliteVars, concVars>>

\* MultiSourceDataFetcher(api_key, db_path): __init__ runs _init_database on
\* the database file it finds
Construct ==
    /\ pc = "new"
    /\ \E out \in {InitDatabaseOutcome(schema, tables, metadata)} :
         /\ schema' = out.schema
         /\ tables' = out.tables
         /\ metadata' = out.metadata
         /\ initRet' = InitRecord(out)
         /\ connOpen' = StillOpen(out.conn)
    /\ pc' = "idle"
    /\ UNCHANGED <<clock, saveRet, fetchVars, normVars, runVars, helperVars,
                   sqliteVars, concVars>>

----------------------------------------------------------------------------
(* save_to_sqlite of src/data/api_data.py/api_data.py: the single-table       *)
(* ingestion script, with its append and overwrite modes                     *)

\* a record of the records list: a dict (its items), or a value that is no dict
DictRec(items) == [dict |-> TRUE, items |-> items]
NonDictRec == [dict |-> FALSE, items |-> [c \in {} |-> None]]

\* the `data` argument: None, a dict (with its keys; `records` is the value of
\* its 'records' key) or a list of records
NoneData == [kind |-> "none", keys |-> {}, records |-> <<>>]
DictData(recs) == [kind |-> "dict", keys |-> {"records"}, records |-> recs]
DictNoRecords == [kind |-> "dict", keys |-> {"status"}, records |-> <<>>]
EmptyDict == [kind |-> "dict", keys |-> {}, records |-> <<>>]
ListData(recs) == [kind |-> "list", keys |-> {}, records |-> recs]

\* not data
DataFalsy(data) ==
    \/ data.kind = "none"
    \/ data.kind = "dict" /\ data.keys = {}
    \/ data.kind = "list" /\ data.records = <<>>

\* data.get('records', []) if isinstance(data, dict) else data
RecordsOf(data) ==
    IF data.kind = "dict" /\ "records" \notin data.keys THEN <<>> ELSE data.records

\* the union of the keys of the records that are dicts
ColumnsOf(records) ==
    UNION {DOMAIN records[i].items : i \in {j \in 1..Len(records) : records[j].dict}}

\* the table before it is created, and after DROP TABLE
NoTable == [exists |-> FALSE, columns |-> {}, rows |-> <<>>]

\* str(val) if val is not None else "", for record.get(col, None)
CellOf(record, col) ==
    IF col \in DOMAIN record.items /\ record.items[col] # None
    THEN Str(StrOf(record.items[col]))
    ELSE Str(<<>>)

\* the row one INSERT adds: the statement names fetch_timestamp and the
\* columns of the call, every other column of the table is NULL
RowOf(record, columns, tableColumns, now) ==
    [fetch_timestamp |-> now,
     cells |-> [c \in tableColumns |->
                   IF c \in columns THEN CellOf(record, c) ELSE None]]

\* the rows the insert loop adds: one per record that is a dict
RECURSIVE RowsOfRecords(_, _, _, _)
RowsOfRecords(records, columns, tableColumns, now) ==
    IF records = <<>> THEN <<>>
    ELSE (IF Head(records).dict
          THEN <<RowOf(Head(records), columns, tableColumns, now)>>
          ELSE <<>>)
         \o RowsOfRecords(Tail(records), columns, tableColumns, now)

\* Where a database-level failure is injected into one save_to_sqlite call:
\* sqlite3.connect raises, or an INSERT (or the commit) raises
SqliteFaults == {"none", "connect", "insert"}

\* the insert loop and commit on table `base`; without a commit, close()
\* discards the rows inserted so far
InsertRecords(base, dropped, records, columns, fault, now) ==
    IF \A i \in 1..Len(records) : ~records[i].dict
    THEN [table |-> base, dropped |-> dropped, ret |-> TRUE]
    ELSE IF fault = "insert" \/ ~(columns \subseteq base.columns)
    THEN [table |-> base, dropped |-> dropped, ret |-> FALSE]
    ELSE [table |-> [base EXCEPT !.rows =
                        @ \o RowsOfRecords(records, columns, base.columns, now)],
          dropped |-> dropped, ret |-> TRUE]

\* save_to_sqlite(data, append_mode=...): the table after the call, whether
\* DROP TABLE was executed, and the returned bool
SaveToSqliteOutcome(tbl, data, append_mode, fault, now) ==
    IF DataFalsy(data) \/ RecordsOf(data) = <<>> \/ fault = "connect"
    THEN [table |-> tbl, dropped |-> FALSE, ret |-> FALSE]
    ELSE LET records == RecordsOf(data)
             columns == ColumnsOf(records)
         IN  IF ~append_mode \/ ~tbl.exists
             THEN IF columns = {}
                  THEN \* DROP TABLE took effect, CREATE TABLE with an empty
                       \* column list is a syntax error
                       [table |-> NoTable, dropped |-> TRUE, ret |-> FALSE]
                  ELSE InsertRecords([exists |-> TRUE, columns |-> columns,
                                      rows |-> <<>>],
                                     TRUE, records, columns, fault, now)
             ELSE InsertRecords(tbl, FALSE, records, columns, fault, now)

\* no save_to_sqlite call made yet
NoSqliteCall == [called |-> FALSE, data |-> NoneData, append_mode |-> TRUE,
                 fault |-> "none", before |-> NoTable, now |-> 0,
                 dropped |-> FALSE, ret |-> FALSE]

----------------------------------------------------------------------------
(* Initial values of the parts a specification does not use *)

NoNormIn == [variant |-> "", records |-> <<>>]
NoNormOut == [done |-> FALSE, rows |-> <<>>, missing |-> 0, errors |-> 0, raised |-> FALSE]

FetchIdle ==
    /\ attempt = 0
    /\ maxRetries = 0
    /\ fetchLog = <<>>
    /\ fetchRet = NoBody

\* the database an object works on once it is constructed, before any save
DbFresh ==
    /\ tables = EmptyTables
    /\ metadata = EmptyMetadata
    /\ connOpen = FALSE
    /\ saveRet = NoSave
    /\ schema = AllTables
    /\ initRet = NoInit

NoFnIn == [fn |-> "", arg |-> None]
NoFnOut == [done |-> FALSE, raised |-> FALSE, num |-> None, raw |-> None, name |-> None]

HelperIdle ==
    /\ fnIn = NoFnIn
    /\ fnOut = NoFnOut

SqliteIdle ==
    /\ sqlite = NoTable
    /\ sqliteCall = NoSqliteCall

\* no concurrent save_to_database call
NoCall == [pc |-> "none", data |-> <<>>, count |-> 0, status |-> "", pending |-> NoRow]

ConcIdle ==
    /\ calls = <<NoCall, NoCall>>
    /\ dbLock = 0

NormIdle ==
    /\ normIn = NoNormIn
    /\ normOut = NoNormOut

\* no entry of the results dict
NoEntry == [present |-> FALSE, count |-> 0, status |-> ""]
Entry(count, status) == [present |-> TRUE, count |-> count, status |-> status]

\* what fetch_all_sources called for one source
NotProcessed == [fetched |-> FALSE, records |-> <<>>, normalized |-> FALSE, saved |-> FALSE]

RunIdle ==
    /\ enabled = {}
    /\ idx = 0
    /\ results = [k \in SourceKeys |-> NoEntry]
    /\ requested = {}
    /\ runLog = [k \in SourceKeys |-> NotProcessed]

----------------------------------------------------------------------------
(* SpecFetch: one fetch_data call *)

InitFetch ==
    /\ pc = "fetch"
    /\ attempt = 0
    /\ maxRetries \in (-1)..MaxRetries
    /\ fetchLog = <<>>
    /\ fetchRet = NoBody
    /\ DbFresh /\ NormIdle /\ RunIdle /\ HelperIdle /\ SqliteIdle /\ ConcIdle
    /\ clock = 0

NextFetch == FetchAttempt \/ FetchExhausted

SpecFetch == InitFetch /\ [][NextFetch]_vars

(* SpecPersist: save_to_database and _init_database calls on one database *)

\* the database file before the object is constructed: absent, left by an
\* earlier version that had the crop_production table only (with a row in
\* it), or left by an earlier process with every table
OldRow == <<Str(SGoa), Time(0)>>

InitDatabases ==
    {[schema |-> {}, tables |-> EmptyTables],
     [schema |-> {"crop_production"},
      tables |-> [EmptyTables EXCEPT !["crop_production"] = <<OldRow>>]],
     [schema |-> AllTables, tables |-> EmptyTables]}

InitPersist ==
    /\ pc = "new"
    /\ \E db \in InitDatabases : schema = db.schema /\ tables = db.tables
    /\ metadata = EmptyMetadata
    /\ connOpen = FALSE
    /\ saveRet = NoSave
    /\ initRet = NoInit
    /\ FetchIdle /\ NormIdle /\ RunIdle /\ HelperIdle /\ SqliteIdle /\ ConcIdle
    /\ clock = 0

NextPersist == Construct \/ SaveToDatabase \/ InitDatabase

SpecPersist == InitPersist /\ [][NextPersist]_vars

(* SpecNorm: one call of one normalizer variant *)

StateVals == {None, Str(SGoa)}
YearVals == {None, Int_(2010), Str(SAbc)}
NumVals == {None, Str(S1500), Str(SDash)}

\* a record with the state, year and number under the field names the
\* variants read, and a rainfall for January
MkRecord(st, yr, num) ==
    Mapping(("state" :> st) @@ ("district" :> Str(SPanaji)) @@ ("subdivision" :> st)
            @@ ("year" :> yr) @@ ("area" :> num) @@ ("avg_rainfall" :> num)
            @@ ("annual" :> num) @@ ("wheat_in_metric_tonnes_" :> num)
            @@ ("expenditure" :> num) @@ ("deaths" :> num)
            @@ ("jan" :> Str(S1500)))

SDate == <<"2", "0", "1", "1", "-", "0", "3", "-", "0", "9">>

NormRecords ==
    {MkRecord(st, yr, num) : st \in StateVals, yr \in YearVals, num \in NumVals}
    \cup {NotMapping,
          MkRecord(Str(SGoa), Int_(2010), Str(SNA)),
          MkRecord(Str(<<" ">>), Int_(2010), Str(S1500)),
          MkRecord(Int_(5), Int_(2010), Str(S1500)),
          Mapping(("State" :> Str(SGoa)) @@ ("date" :> Str(SDate)))}

RECURSIVE ListsUpTo(_, _)
ListsUpTo(S, n) ==
    IF n = 0 THEN {<<>>}
    ELSE LET shorter == ListsUpTo(S, n - 1) IN
         shorter \cup {Append(l, x) : l \in {m \in shorter : Len(m) = n - 1}, x \in S}

InitNorm ==
    /\ pc = "norm"
    /\ normIn \in [variant : Variants, records : ListsUpTo(NormRecords, MaxRecords)]
    /\ normOut = NoNormOut
    /\ FetchIdle /\ DbFresh /\ RunIdle /\ HelperIdle /\ SqliteIdle /\ ConcIdle
    /\ clock = 0

\* a normalize_* method is called on the records
NormalizeCall ==
    /\ UNCHANGED <<schemaVars, helperVars, sqliteVars, concVars>>
    /\ pc = "norm"
    /\ normOut' = Normalize(normIn.variant, normIn.records, clock)
    /\ pc' = "norm_ret"
    /\ UNCHANGED <<normIn, fetchVars, dbVars, runVars, clock>>

NextNorm == NormalizeCall

SpecNorm == InitNorm /\ [][NextNorm]_vars

(* SpecHelper: one call of parse_numeric_keep_raw or of clean_column_name *)

RECURSIVE StringsUpTo(_, _)
StringsUpTo(A, n) ==
    IF n = 0 THEN {<<>>}
    ELSE LET shorter == StringsUpTo(A, n - 1)
         IN  shorter \cup {Append(w, c) : w \in shorter, c \in A}

ParseAlphabet == {"1", "5", ",", ".", "-", " ", "N", "A"}

\* field values of the data.gov.in records, among them the examples of the
\* docstring of parse_numeric_keep_raw
ParseExamples ==
    {<<"3", ",", "4", "5", ",", "0", "0", "0">>,
     <<"1", ",", "2", "3", "4", ",", "5", "6", "7">>,
     <<"2", ",", "5", "0", "0", " ", "H", "a">>,
     <<"1", "2", ".", "5", " ", "C", "r">>,
     <<"-", "1", "2", ".", "5">>,
     <<" ", "n", "/", "a", " ">>, <<"N", "U", "L", "L">>, <<"a", "b", "c">>}

ParseArgs ==
    {None, Int_(0), Int_(1500)}
    \cup {Str(w) : w \in StringsUpTo(ParseAlphabet, MaxChars) \cup ParseExamples}

CleanAlphabet == {"A", "b", " ", "_", "/", "U+0130"}

\* the examples of the docstring of clean_column_name
CleanExamples ==
    {<<"S", "t", "a", "t", "e", "/", "U", "T">>, <<"S", ".", "N", "o", ".">>}

CleanArgs ==
    {None} \cup {Str(w) : w \in StringsUpTo(CleanAlphabet, MaxChars) \cup CleanExamples}

InitHelper ==
    /\ pc = "helper"
    /\ fnIn \in [fn : {"parse_numeric_keep_raw"}, arg : ParseArgs]
               \cup [fn : {"clean_column_name"}, arg : CleanArgs]
    /\ fnOut = NoFnOut
    /\ FetchIdle /\ DbFresh /\ NormIdle /\ RunIdle /\ SqliteIdle /\ ConcIdle
    /\ clock = 0

\* parse_numeric_keep_raw(value) is called and returns
ParseNumericCall ==
    /\ pc = "helper"
    /\ fnIn.fn = "parse_numeric_keep_raw"
    /\ \E out \in {parse_numeric_keep_raw(fnIn.arg)} :
         fnOut' = [done |-> TRUE, raised |-> FALSE, num |-> out.num, raw |-> out.raw,
                   name |-> None]
    /\ pc' = "helper_ret"
    /\ UNCHANGED <<fnIn, fetchVars, dbVars, schemaVars, normVars, runVars, clock,
                 sqliteVars, concVars>>

\* clean_column_name(col) is called and returns
CleanColumnNameCall ==
    /\ pc = "helper"
    /\ fnIn.fn = "clean_column_name"
    /\ fnOut' = [done |-> TRUE, raised |-> FALSE, num |-> None, raw |-> None,
                 name |-> clean_column_name(fnIn.arg)]
    /\ pc' = "helper_ret"
    /\ UNCHANGED <<fnIn, fetchVars, dbVars, schemaVars, normVars, runVars, clock,
                 sqliteVars, concVars>>

NextHelper == ParseNumericCall \/ CleanColumnNameCall

SpecHelper == InitHelper /\ [][NextHelper]_vars

(* SpecRun: one fetch_all_sources run over a DATA_SOURCES configuration *)

\* fetch_data(resource_id, limit=1000): max_retries keeps its default
DefaultMaxRetries == 3

\* a dispatch that names fetch_timestamp for Agency_Rainfall too, as the table
\* declares it, while the tuples of that normalizer carry no timestamp
RunColumnsAllTimestamped(src) ==
    IF src = "Agency_Rainfall"
    THEN <<"State", "District", "Date", "Year", "Month", "Avg_rainfall", "Agency_name",
           "fetch_timestamp">>
    ELSE <<>>

\* the `columns` list fetch_all_sources passes for a source
RunColumns(src) ==
    CASE src = "crop_production" ->
            <<"state", "district", "crop", "season", "year", "area", "production",
              "data_source", "fetch_timestamp">>
      [] src = "rainfall_district" -> <<"SUBDIVISION", "YEAR">> \o Months \o <<"annual">>
      [] src = "production_crop_specific" ->
            <<"State", "District", "Wheat", "Maize", "Rice", "Barley", "Ragi", "Pulses",
              "common_millets", "Total", "Chillies", "Ginger", "Oil_seeds">>
      [] src = "Agency_Rainfall" ->
            <<"State", "District", "Date", "Year", "Month", "Avg_rainfall", "Agency_name">>
      [] src = "damages_floods" ->
            <<"year", "s_no", "state_ut", "area_affected_hectare",
              "area_affected_hectare_raw", "damage_to_crop_hectare",
              "damage_to_crop_hectare_raw", "livestock_loss_count",
              "livestock_loss_count_raw", "human_lives_lost", "human_lives_lost_raw",
              "source", "fetch_timestamp">>
      [] src = "damages_rainfall" ->
            <<"year", "state_ut", "crop_damage_hectare", "crop_damage_hectare_raw",
              "crop_damage_value_crore", "crop_damage_value_crore_raw", "rainfall_type",
              "source", "fetch_timestamp">>
      [] src = "extreme_temperature" ->
            <<"year", "state_ut", "extreme_event_type", "event_days", "event_days_raw",
              "deaths", "deaths_raw", "source", "fetch_timestamp">>
      [] src = "drought_cases" ->
            <<"year", "state_ut", "drought_severity", "area_affected_hectare",
              "area_affected_hectare_raw", "crop_loss_value_crore",
              "crop_loss_value_crore_raw", "source", "fetch_timestamp">>
      [] OTHER -> <<>>

\* the source keys the if / elif chain of fetch_all_sources has a branch for;
\* any other key takes `else: continue`
HasBranch(src) ==
    src \in {"crop_production", "rainfall_district", "production_crop_specific",
             "Agency_Rainfall", "damages_floods", "damages_rainfall",
             "extreme_temperature", "drought_cases"}

\* a test that takes every returned value for data
NoDataNever(data) == FALSE

\* not data or 'records' not in data or not data['records']
NoData(data) == data.none \/ ~data.has \/ data.records = <<>>

CurrentSource == SourceOrder[idx]

\* the row normalize_crop_data gives for the WellFormed record
EarlierRow(now) ==
    <<Str(SGoa), Str(SPanaji), Str(SRice), Str(SKharif), Int_(2010), Float(1500, 0),
      Float(1500, 0), Str(SCropSource), Time(now)>>

\* the database an earlier run left: crop_production was fetched (one
\* well-formed record), normalized and saved
EarlierRun(now) ==
    SaveOutcome(EmptyTables, EmptyMetadata, "crop_production", <<EarlierRow(now)>>,
                RunColumns("crop_production"), "none", now)

\* the databases a run starts on: fresh, or as an earlier run left it
RunDatabases(now) ==
    {[tables |-> EmptyTables, metadata |-> EmptyMetadata],
     [tables |-> EarlierRun(now).tables, metadata |-> EarlierRun(now).metadata]}

InitRun ==
    /\ pc = "run"
    /\ enabled \in {S \in SUBSET SourceKeys : Cardinality(S) <= MaxEnabled}
    /\ idx = 1
    /\ results = [k \in SourceKeys |-> NoEntry]
    /\ requested = {}
    /\ runLog = [k \in SourceKeys |-> NotProcessed]
    /\ \E db \in RunDatabases(0) : tables = db.tables /\ metadata = db.metadata
    /\ connOpen = FALSE
    /\ saveRet = NoSave
    /\ schema = AllTables
    /\ initRet = NoInit
    /\ FetchIdle /\ NormIdle /\ HelperIdle /\ SqliteIdle /\ ConcIdle
    /\ clock = 1

\* `if not source_config.get('enabled', True): continue`
RunSkipDisabled ==
    /\ UNCHANGED <<schemaVars, helperVars, sqliteVars, concVars>>
    /\ pc = "run"
    /\ idx <= Len(SourceOrder)
    /\ CurrentSource \notin enabled
    /\ idx' = idx + 1
    /\ UNCHANGED <<pc, enabled, results, requested, runLog, fetchVars, dbVars,
                   normVars, clock>>

\* self.fetch_data(source_config['resource_id'], limit=1000) is entered
RunCallFetch ==
    /\ UNCHANGED <<schemaVars, helperVars, sqliteVars, concVars>>
    /\ pc = "run"
    /\ idx <= Len(SourceOrder)
    /\ CurrentSource \in enabled
    /\ pc' = "run_fetch"
    /\ attempt' = 0
    /\ maxRetries' = DefaultMaxRetries
    /\ fetchRet' = NoBody
    /\ UNCHANGED <<fetchLog, enabled, idx, results, requested, runLog, dbVars,
                   normVars, clock>>

\* one iteration of the retry loop of that fetch_data call
RunFetchAttempt ==
    /\ UNCHANGED <<schemaVars, helperVars, sqliteVars, concVars>>
    /\ pc = "run_fetch"
    /\ attempt < maxRetries
    /\ \E resp \in Responses :
         LET st == FetchStep(attempt, maxRetries, resp) IN
         IF st.raised
         THEN /\ pc' = "run_raised"
              /\ fetchRet' = fetchRet
              /\ attempt' = attempt
         ELSE IF st.ret
         THEN /\ pc' = "run_fetched"
              /\ fetchRet' = st.val
              /\ attempt' = attempt
         ELSE /\ pc' = "run_fetch"
              /\ fetchRet' = fetchRet
              /\ attempt' = attempt + 1
    /\ requested' = requested \cup {CurrentSource}
    /\ UNCHANGED <<maxRetries, fetchLog, enabled, idx, results, runLog, dbVars,
                   normVars, clock>>

\* the loop of that call is exhausted: return None
RunFetchExhausted ==
    /\ UNCHANGED <<schemaVars, helperVars, sqliteVars, concVars>>
    /\ pc = "run_fetch"
    /\ attempt >= maxRetries
    /\ pc' = "run_fetched"
    /\ fetchRet' = NoBody
    /\ UNCHANGED <<attempt, maxRetries, fetchLog, enabled, idx, results, requested,
                   runLog, dbVars, normVars, clock>>

\* the rest of the loop body for the source, with the value fetch_data
\* returned: the no_data entry, or dispatch, normalize, save and record
RunProcess ==
    /\ UNCHANGED <<schemaVars, helperVars, sqliteVars, concVars>>
    /\ pc = "run_fetched"
    /\ LET src == CurrentSource
           data == fetchRet
       IN  IF NoData(data)
           THEN /\ results' = [results EXCEPT ![src] = Entry(0, "no_data")]
                /\ pc' = "run"
                /\ UNCHANGED <<runLog, dbVars, normOut>>
           ELSE IF ~HasBranch(src)
           THEN /\ runLog' = [runLog EXCEPT ![src] =
                       [fetched |-> TRUE, records |-> data.records,
                        normalized |-> FALSE, saved |-> FALSE]]
                /\ pc' = "run"
                /\ UNCHANGED <<results, dbVars, normOut>>
           ELSE \E norm \in {Normalize(src, data.records, clock)} :
                IF norm.raised
                THEN /\ runLog' = [runLog EXCEPT ![src] =
                            [fetched |-> TRUE, records |-> data.records,
                             normalized |-> TRUE, saved |-> FALSE]]
                     /\ normOut' = norm
                     /\ pc' = "run_raised"
                     /\ UNCHANGED <<results, dbVars>>
                ELSE \E fault \in DbFaults :
                     \E out \in {SaveOutcome(tables, metadata, src, norm.rows,
                                             RunColumns(src), fault, clock)} :
                       /\ normOut' = norm
                       /\ runLog' = [runLog EXCEPT ![src] =
                              [fetched |-> TRUE, records |-> data.records,
                               normalized |-> TRUE, saved |-> TRUE]]
                       /\ tables' = out.tables
                       /\ metadata' = out.metadata
                       /\ saveRet' = SaveRecord(src, norm.rows, fault, out)
                       /\ connOpen' = StillOpen(out.conn)
                       /\ IF out.raised
                          THEN pc' = "run_raised" /\ results' = results
                          ELSE /\ pc' = "run"
                               /\ results' = [results EXCEPT ![src] =
                                                 Entry(out.count, out.status)]
    /\ idx' = idx + 1
    /\ clock' = clock + 1
    \* `data` and the locals of the fetch_data call are dead from here on
    /\ fetchRet' = NoBody
    /\ attempt' = 0
    /\ UNCHANGED <<enabled, requested, normIn, maxRetries, fetchLog>>

\* `return results`
RunReturn ==
    /\ UNCHANGED <<schemaVars, helperVars, sqliteVars, concVars>>
    /\ pc = "run"
    /\ idx > Len(SourceOrder)
    /\ pc' = "run_done"
    /\ UNCHANGED <<enabled, idx, results, requested, runLog, fetchVars, dbVars,
                   normVars, clock>>

NextRun ==
    \/ RunSkipDisabled
    \/ RunCallFetch
    \/ RunFetchAttempt
    \/ RunFetchExhausted
    \/ RunProcess
    \/ RunReturn

SpecRun == InitRun /\ [][NextRun]_vars

(* SpecSqlite: save_to_sqlite calls of the script on one database file *)

\* the records and data arguments of the model
StateRecord == DictRec([c \in {"state"} |-> Str(SGoa)])

SqliteRecords ==
    {StateRecord,
     DictRec([c \in {"state", "year"} |-> IF c = "state" THEN Str(SGoa) ELSE Int_(1)]),
     DictRec([c \in {"year"} |-> None]),
     NonDictRec}

SqliteDatas ==
    {NoneData, EmptyDict, DictNoRecords, ListData(<<>>), ListData(<<StateRecord>>)}
    \cup {DictData(<<r>>) : r \in SqliteRecords}
    \cup {DictData(<<StateRecord, r>>) : r \in SqliteRecords}

\* save_to_sqlite called by the script
SaveToSqlite ==
    /\ pc = "sqlite"
    /\ clock < MaxCalls
    /\ \E data \in SqliteDatas, append_mode \in BOOLEAN, fault \in SqliteFaults :
         \E out \in {SaveToSqliteOutcome(sqlite, data, append_mode, fault, clock)} :
             /\ sqlite' = out.table
             /\ sqliteCall' = [called |-> TRUE, data |-> data,
                               append_mode |-> append_mode, fault |-> fault,
                               before |-> sqlite, now |-> clock,
                               dropped |-> out.dropped, ret |-> out.ret]
    /\ clock' = clock + 1
    /\ UNCHANGED <<pc, fetchVars, dbVars, schemaVars, normVars, runVars, helperVars,
                   concVars>>

InitSqlite ==
    /\ pc = "sqlite"
    /\ SqliteIdle
    /\ FetchIdle /\ DbFresh /\ NormIdle /\ RunIdle /\ HelperIdle /\ ConcIdle
    /\ clock = 0

NextSqlite == SaveToSqlite

SpecSqlite == InitSqlite /\ [][NextSqlite]_vars

(* SpecConcurrent: two save_to_database calls on one destination table, each *)
(* on its own connection to the same database file, run concurrently        *)

Procs == {1, 2}

ConcTable == "crop_production"

\* the database the two calls find: fresh, or as an earlier successful save of
\* one row left it
EarlierSave ==
    SaveOutcome(EmptyTables, EmptyMetadata, ConcTable, DirectBatch(1, 0, FALSE),
                DirectColumns(ConcTable), "none", 0)

ConcDatabases ==
    {[tables |-> EmptyTables, metadata |-> EmptyMetadata],
     [tables |-> EarlierSave.tables, metadata |-> EarlierSave.metadata]}

\* call p has been entered with a batch whose rows carry p as their timestamp
StartedCall(p, n, bad) ==
    [pc |-> "start", data |-> DirectBatch(n, p, bad), count |-> 0, status |-> "",
     pending |-> NoRow]

InitConcurrent ==
    /\ pc = "conc"
    /\ \E n1 \in 0..MaxBatch, n2 \in 0..MaxBatch, bad \in BOOLEAN :
         calls = <<StartedCall(1, n1, FALSE), StartedCall(2, n2, bad)>>
    /\ dbLock = 0
    /\ \E db \in ConcDatabases : tables = db.tables /\ metadata = db.metadata
    /\ connOpen = FALSE
    /\ saveRet = NoSave
    /\ schema = AllTables
    /\ initRet = NoInit
    /\ FetchIdle /\ NormIdle /\ RunIdle /\ HelperIdle /\ SqliteIdle
    /\ clock = 1

Returned(p, count, status) ==
    [calls EXCEPT ![p].pc = "returned", ![p].count = count, ![p].status = status]

\* `if not data: return 0, "No data to save"`
ConcNoData(p) ==
    /\ calls[p].pc = "start"
    /\ calls[p].data = <<>>
    /\ calls' = Returned(p, 0, "No data to save")
    /\ UNCHANGED <<pc, dbLock, clock, fetchVars, dbVars, schemaVars, normVars, runVars,
                   helperVars, sqliteVars>>

\* connect and executemany: the statement takes the write lock of the database
\* file and its rows stay uncommitted; tuples the statement rejects raise
ConcExecuteMany(p) ==
    /\ calls[p].pc = "start"
    /\ calls[p].data # <<>>
    /\ dbLock = 0
    /\ IF InsertAccepted(ConcTable, calls[p].data, DirectColumns(ConcTable))
       THEN /\ calls' = [calls EXCEPT ![p].pc = "inserted"]
            /\ dbLock' = p
       ELSE /\ calls' = Returned(p, 0, "Error: insert")
            /\ dbLock' = dbLock
    /\ UNCHANGED <<pc, clock, fetchVars, dbVars, schemaVars, normVars, runVars,
                   helperVars, sqliteVars>>

\* the first conn.commit(): the rows of the batch are in the table, the lock
\* is released
ConcCommitInsert(p) ==
    /\ calls[p].pc = "inserted"
    /\ tables' = [tables EXCEPT ![ConcTable] = @ \o calls[p].data]
    /\ calls' = [calls EXCEPT ![p].pc = "committed"]
    /\ dbLock' = 0
    /\ UNCHANGED <<pc, clock, metadata, connOpen, saveRet, fetchVars, schemaVars,
                   normVars, runVars, helperVars, sqliteVars>>

\* INSERT OR REPLACE INTO data_metadata: the statement takes the write lock and
\* evaluates COUNT(*) and datetime.now(); its row stays uncommitted
ConcUpsert(p) ==
    /\ calls[p].pc = "committed"
    /\ dbLock = 0
    /\ calls' = [calls EXCEPT
                    ![p].pc = "upserted",
                    ![p].pending = UpsertMetadata(metadata, tables, ConcTable,
                                                  calls[p].data, clock)[ConcTable]]
    /\ dbLock' = p
    /\ clock' = clock + 1
    /\ UNCHANGED <<pc, fetchVars, dbVars, schemaVars, normVars, runVars, helperVars,
                   sqliteVars>>

\* the second conn.commit(), conn.close() and `return inserted, "success"`
ConcCommitUpsert(p) ==
    /\ calls[p].pc = "upserted"
    /\ metadata' = [metadata EXCEPT ![ConcTable] = calls[p].pending]
    /\ calls' = Returned(p, Len(calls[p].data), "success")
    /\ dbLock' = 0
    /\ UNCHANGED <<pc, clock, tables, connOpen, saveRet, fetchVars, schemaVars,
                   normVars, runVars, helperVars, sqliteVars>>

\* a statement of p finds the write lock held by the other connection until
\* the busy timeout: "database is locked" is raised, the except branch rolls
\* back (rows committed before stay) and returns the error
ConcLocked(p) ==
    /\ calls[p].pc \in {"start", "committed"}
    /\ calls[p].data # <<>>
    /\ dbLock \in Procs \ {p}
    /\ calls' = Returned(p, 0, "Error: database is locked")
    /\ UNCHANGED <<pc, dbLock, clock, fetchVars, dbVars, schemaVars, normVars, runVars,
                   helperVars, sqliteVars>>

NextConcurrent ==
    \E p \in Procs :
        \/ ConcNoData(p)
        \/ ConcExecuteMany(p)
        \/ ConcCommitInsert(p)
        \/ ConcUpsert(p)
        \/ ConcCommitUpsert(p)
        \/ ConcLocked(p)

SpecConcurrent == InitConcurrent /\ [][NextConcurrent]_vars

----------------------------------------------------------------------------
(* Properties of save_to_database (SpecPersist) *)

LastTable == saveRet.table

\* C1: when a database-level failure occurs in the bulk insert or in the
\* metadata upsert of a save_to_database call with non-empty rows, the
\* destination table holds exactly the rows it held before the call and the
\* call returns count 0 with a failure status.
C1_FailedSaveKeepsNoRow ==
    (saveRet.called /\ saveRet.data # <<>>
       /\ saveRet.status \in {"Error: insert", "Error: upsert"})
    => /\ tables[LastTable] = saveRet.before[LastTable]
       /\ saveRet.count = 0

\* C7: a save_to_database call of N rows that meets no failure returns
\* (N, "success"), and after a call that returned "success" the metadata row of
\* the table reads "success" with record_count = rows before the call + N = the
\* rows now in the table.
C7_SuccessCountsTheTable ==
    /\ (saveRet.called /\ saveRet.data # <<>> /\ saveRet.fault = "none"
          /\ InsertAccepted(LastTable, saveRet.data, DirectColumns(LastTable)))
       => saveRet.status = "success"
    /\ (saveRet.called /\ saveRet.status = "success")
       => /\ saveRet.count = Len(saveRet.data)
          /\ metadata[LastTable].present
          /\ metadata[LastTable].fetch_status = "success"
          /\ metadata[LastTable].record_count
                = Len(saveRet.before[LastTable]) + Len(saveRet.data)
          /\ metadata[LastTable].record_count = Len(tables[LastTable])

\* a successful save into a table that held rows, where neither the previous
\* record_count plus N nor N is the table's row count
C7_Witness ==
    /\ saveRet.called
    /\ saveRet.status = "success"
    /\ saveRet.before[LastTable] # <<>>
    /\ saveRet.metaBefore[LastTable].record_count + Len(saveRet.data)
          # Len(tables[LastTable])
    /\ Len(saveRet.data) # Len(tables[LastTable])

\* C8 as stated: save_to_database with an empty row list returns
\* (0, "no data") and leaves the destination table and the metadata table
\* unchanged.
C8_EmptySaveReturnsNoData ==
    (saveRet.called /\ saveRet.data = <<>>)
    => /\ saveRet.count = 0
       /\ saveRet.status = "no data"
       /\ tables = saveRet.before
       /\ metadata = saveRet.metaBefore

\* C8 amended: save_to_database with an empty row list returns
\* (0, "No data to save"), raises nothing, and leaves every destination table
\* and the metadata table unchanged.
C8_EmptySaveIsNoOp ==
    (saveRet.called /\ saveRet.data = <<>>)
    => /\ saveRet.count = 0
       /\ saveRet.status = "No data to save"
       /\ ~saveRet.raised
       /\ tables = saveRet.before
       /\ metadata = saveRet.metaBefore

\* an empty save on a table that holds rows and has a metadata row
C8_Witness ==
    /\ saveRet.called
    /\ saveRet.data = <<>>
    /\ tables[LastTable] # <<>>
    /\ metadata[LastTable].present

\* C18: every run of _init_database, also on a database that holds ingested
\* rows, completes without raising, leaves the rows of every destination table
\* and of the metadata table as they were, and afterwards the destination table
\* of every source of DATA_SOURCES and the metadata table exist.
C18_InitDatabaseIsIdempotent ==
    initRet.called
    => /\ ~initRet.raised
       /\ initRet.after = initRet.before
       /\ initRet.metaAfter = initRet.metaBefore
       /\ initRet.schemaBefore \subseteq schema
       /\ \A src \in SourceKeys : src \in schema
       /\ MetadataTable \in schema

\* _init_database run again on the constructed object after a successful save:
\* every table existed, one holds rows and has its metadata row
C18_Witness ==
    /\ initRet.called
    /\ initRet.schemaBefore = AllTables
    /\ \E t \in DirectTables :
          /\ initRet.before[t] # <<>>
          /\ initRet.metaBefore[t].present
          /\ tables[t] = initRet.before[t]

C27_RecordCountIsTheRowCount ==
    \A t \in TableNames :
        metadata[t].present => metadata[t].record_count = CountRows(tables, t)

----------------------------------------------------------------------------
(* Properties of fetch_data (SpecFetch) *)

IsRequest(ev) == ev.e = "request"

\* the responses of the attempts made so far, in order
Attempts == SelectSeq(fetchLog, IsRequest)

\* HTTP 200 with a non-empty records collection
IsSuccess(resp) ==
    resp.kind = "http" /\ resp.status = 200 /\ resp.body.has /\ resp.body.records # <<>>

\* HTTP 200 whose body raises while it is parsed or inspected
IsBodyException(resp) ==
    resp.kind = "http" /\ resp.status = 200 /\ resp.body \in {BodyScalar, BodyInvalid}

\* HTTP 429, another non-404 HTTP error, a timeout, any other exception
IsRetryable(resp) ==
    \/ resp.kind \in {"timeout", "exc"}
    \/ resp.kind = "http" /\ resp.status \notin {200, 404}
    \/ IsBodyException(resp)

\* C10: if attempt k < max_retries receives HTTP 200 with a non-empty records
\* collection and every earlier attempt ended in a retryable failure, the call
\* returns the parsed body of attempt k; and while every attempt so far ended
\* in a retryable failure and fewer than max_retries attempts were made, the
\* call has not returned, so attempt k is made.
C10_SuccessAfterRetriesReturnsBody ==
    /\ \A k \in 1..Len(Attempts) :
          (IsSuccess(Attempts[k].resp)
             /\ \A j \in 1..(k - 1) : IsRetryable(Attempts[j].resp))
          => (pc = "fetch_ret" /\ fetchRet = Attempts[k].resp.body)
    /\ ((\A j \in 1..Len(Attempts) : IsRetryable(Attempts[j].resp))
          /\ Len(Attempts) < maxRetries)
       => pc = "fetch"

\* a 429, then a timeout, then a 200 whose body is returned
C10_Witness ==
    /\ pc = "fetch_ret"
    /\ Len(Attempts) = 3
    /\ Attempts[1].resp = Http(429, NoBody)
    /\ Attempts[2].resp = TimeoutResp
    /\ IsSuccess(Attempts[3].resp)
    /\ fetchRet = Attempts[3].resp.body

\* HTTP 404, or HTTP 200 whose body has no records collection or an empty one
IsTerminal(resp) ==
    /\ resp.kind = "http"
    /\ \/ resp.status = 404
       \/ resp.status = 200 /\ ~IsBodyException(resp) /\ ~IsSuccess(resp)

\* the number of HTTP requests among the first k events of the call
RequestsUpTo(k) == Len(SelectSeq(SubSeq(fetchLog, 1, k), IsRequest))

\* C11: a terminal response (HTTP 404 on any attempt, HTTP 200 with a missing
\* or empty records collection) is the last event of the call: the call has
\* returned None, no HTTP request and no wait follows it.
C11_TerminalResponseEndsTheCall ==
    \A k \in 1..Len(fetchLog) :
       (IsRequest(fetchLog[k]) /\ IsTerminal(fetchLog[k].resp))
       => /\ k = Len(fetchLog)
          /\ pc = "fetch_ret"
          /\ fetchRet = NoBody

\* a 429 and its wait, then a 404 on the second of three allowed attempts
C11_Witness ==
    /\ pc = "fetch_ret"
    /\ maxRetries = 3
    /\ Len(Attempts) = 2
    /\ Attempts[1].resp = Http(429, NoBody)
    /\ Attempts[2].resp = Http(404, NoBody)

\* C12: fetch_data never raises; a call whose every attempt failed with a
\* non-404 HTTP error, a timeout or another exception (a body that is not JSON,
\* a body on which the records test raises) returns None after exactly
\* max_retries requests, and after no request when max_retries <= 0.
C12_FetchNeverRaises ==
    /\ pc # "fetch_raised"
    /\ (pc = "fetch_ret" /\ \A j \in 1..Len(Attempts) : IsRetryable(Attempts[j].resp))
       => /\ fetchRet = NoBody
          /\ Len(Attempts) = IF maxRetries > 0 THEN maxRetries ELSE 0
    /\ (pc = "fetch_ret" /\ fetchRet # NoBody)
       => IsSuccess(Attempts[Len(Attempts)].resp)

\* three allowed attempts: a 500, a body that is not JSON, a connection error
C12_Witness ==
    /\ pc = "fetch_ret"
    /\ maxRetries = 3
    /\ Len(Attempts) = 3
    /\ Attempts[1].resp = Http(500, NoBody)
    /\ Attempts[2].resp = Http(200, BodyInvalid)
    /\ Attempts[3].resp = ExcResp
    /\ fetchRet = NoBody

\* C13: the HTTP 429 received by the request that a requests preceded
\* (whatever their outcome) is followed at once by a wait of 2^a seconds, and
\* after that wait the loop goes on while fewer than max_retries attempts were
\* made.
C13_RateLimitWaitsTwoToTheAttempt ==
    /\ \A k \in 1..Len(fetchLog) :
          (IsRequest(fetchLog[k]) /\ fetchLog[k].resp = Http(429, NoBody))
          => /\ k < Len(fetchLog)
             /\ fetchLog[k + 1].e = "sleep"
             /\ fetchLog[k + 1].secs = Pow2(RequestsUpTo(k - 1))
    /\ (fetchLog # <<>> /\ fetchLog[Len(fetchLog)].e = "sleep"
          /\ Len(Attempts) < maxRetries)
       => (pc = "fetch" /\ attempt = Len(Attempts))

\* a 500, then a 429 answered by a wait of 2, then a 429 answered by a wait of 4
C13_Witness ==
    /\ Len(fetchLog) = 5
    /\ fetchLog[1].resp = Http(500, NoBody)
    /\ fetchLog[2].resp = Http(429, NoBody)
    /\ fetchLog[3].secs = 2
    /\ fetchLog[4].resp = Http(429, NoBody)
    /\ fetchLog[5].secs = 4

\* C14: no two consecutive HTTP requests of one call are issued without a
\* wait between them.
C14_WaitBeforeEveryRetry ==
    \A k \in 1..(Len(fetchLog) - 1) :
       ~(IsRequest(fetchLog[k]) /\ IsRequest(fetchLog[k + 1]))

\* C28: fetch_data never waits after its final attempt: every backoff wait of a
\* call is followed by another HTTP request of the same call, so a call that
\* has returned has not slept since its last request.
C28_NoWaitAfterFinalAttempt ==
    (pc = "fetch_ret" /\ fetchLog # <<>>) => IsRequest(fetchLog[Len(fetchLog)])

----------------------------------------------------------------------------
(* Properties of the normalizers (SpecNorm) *)

\* position of the primary grouping key (state / region / subdivision) in the
\* tuple of a variant; 0: the tuple has none
KeyIndex(variant) ==
    CASE variant \in {"crop_production", "rainfall_district",
                      "production_crop_specific", "Agency_Rainfall"} -> 1
      [] variant = "damages_floods" -> 3
      [] variant \in {"damages_rainfall", "extreme_temperature", "drought_cases"} -> 2
      [] OTHER -> 0

\* position of the year in the tuple of a variant; 0: the tuple has none
YearIndex(variant) ==
    CASE variant = "crop_production" -> 5
      [] variant = "rainfall_district" -> 2
      [] variant = "Agency_Rainfall" -> 4
      [] variant = "production_crop_specific" -> 0
      [] OTHER -> 1

KeyPresent(row, variant) ==
    KeyIndex(variant) > 0
    => (row[KeyIndex(variant)].k = "str" /\ row[KeyIndex(variant)].s # <<>>)

\* the year is a number other than 0, and not the current year (which no
\* record of NormRecords supplies)
YearPresent(row, variant) ==
    YearIndex(variant) > 0
    => /\ row[YearIndex(variant)].k \in {"int", "float"}
       /\ row[YearIndex(variant)].n \notin {0, CurrentYear}

\* C4: no normalizer variant emits a row whose primary grouping key is empty,
\* and no time-series variant emits a row whose year is absent (null or 0) or
\* was not supplied by the record.
C4_NoRowWithoutRequiredField ==
    normOut.done
    => \A i \in 1..Len(normOut.rows) :
          /\ KeyPresent(normOut.rows[i], normIn.variant)
          /\ YearPresent(normOut.rows[i], normIn.variant)

NonBlank(v) == v.k = "str" /\ Strip(v.s) # <<>>

\* the record has a state (region, subdivision), a district and a valid year
HasRequired(rec) ==
    /\ rec.m
    /\ NonBlank(Get(rec, "state"))
    /\ NonBlank(Get(rec, "subdivision"))
    /\ NonBlank(Get(rec, "district"))
    /\ Get(rec, "year").k = "int" /\ Get(rec, "year").n > 0

\* C5: in every variant a record that has all its required fields yields
\* exactly one row, whatever its other fields hold (missing, empty, a sentinel
\* such as "-" or "NA", an unparsable number).
C5_RequiredFieldsGiveOneRow ==
    (normOut.done /\ \A i \in 1..Len(normIn.records) : HasRequired(normIn.records[i]))
    => Len(normOut.rows) = Len(normIn.records)

\* C6: for every variant and input list, inputs = rows + missing-field drops +
\* exception drops.
C6_EveryRecordAccounted ==
    (normOut.done /\ ~normOut.raised)
    => Len(normIn.records) = Len(normOut.rows) + normOut.missing + normOut.errors

\* the positions of the input records that give a row
Kept ==
    {i \in 1..Len(normIn.records) :
        RecordOutcome(normIn.variant, normIn.records[i], clock).out = "row"}

\* C20: the rows a normalizer returns are the rows of a subsequence of the
\* input records, one row per kept record, in input order: the k-th kept
\* record gives the k-th row, equal rows included.
C20_RowsInEncounterOrder ==
    (normOut.done /\ ~normOut.raised)
    => /\ Len(normOut.rows) = Cardinality(Kept)
       /\ \A i \in Kept :
             normOut.rows[Cardinality({j \in Kept : j <= i})]
                = RecordOutcome(normIn.variant, normIn.records[i], clock).row

\* two identical valid records that give two equal rows
C20_Witness ==
    /\ normOut.done
    /\ Len(normIn.records) = 2
    /\ normIn.records[1] = normIn.records[2]
    /\ Len(normOut.rows) = 2
    /\ normOut.rows[1] = normOut.rows[2]

\* the record carries the state, the year and one number under the field
\* names both crop_production and Agency_Rainfall read
SamePattern(rec) ==
    /\ rec.m
    /\ {"state", "year", "area", "avg_rainfall"} \subseteq DOMAIN rec.f
    /\ Get(rec, "area") = Get(rec, "avg_rainfall")

\* position of area, and of Avg_rainfall, in the tuples of the two variants
NumberIndex == 6

\* C25: crop_production and Agency_Rainfall, which both require state and year,
\* apply the same control logic: on a record with the same pattern of present,
\* missing, sentinel and unparsable values they make the same keep/drop
\* decision, attribute a drop to the same reason and default the number alike.
C25_VariantsShareControlLogic ==
    (normOut.done /\ normIn.variant \in {"crop_production", "Agency_Rainfall"})
    => \A i \in 1..Len(normIn.records) :
          SamePattern(normIn.records[i])
          => LET crop == RecordOutcome("crop_production", normIn.records[i], clock)
                 agency == RecordOutcome("Agency_Rainfall", normIn.records[i], clock)
             IN  /\ crop.out = agency.out
                 /\ crop.out = "row"
                    => crop.row[NumberIndex] = agency.row[NumberIndex]

\* the record supplies no usable annual value: annual / ANNUAL is missing,
\* empty, a sentinel or unparsable
NoUsableAnnual(rec) ==
    /\ rec.m
    /\ LET v == Or(Get(rec, "annual"), Get(rec, "ANNUAL")) IN
       v.k = "none" \/ (v.k = "str" /\ ~PyFloat(v).ok)

\* positions of jan and of annual in a rainfall_district tuple
JanIndex == 3
AnnualIndex == 15

\* C30: in normalize_rainfall_district_data, when a record supplies no usable
\* annual value, the annual value of the emitted row equals the sum of its
\* twelve normalized monthly values.
C30_AnnualDefaultsToMonthlySum ==
    (normOut.done /\ normIn.variant = "rainfall_district")
    => \A i \in 1..Len(normIn.records) :
          LET out == RecordOutcome("rainfall_district", normIn.records[i], clock) IN
          (NoUsableAnnual(normIn.records[i]) /\ out.out = "row")
          => out.row[AnnualIndex]
             = FSum(SubSeq(out.row, JanIndex, AnnualIndex - 1))

----------------------------------------------------------------------------
(* Properties of parse_numeric_keep_raw and clean_column_name (SpecHelper) *)

\* where the comma-grouped number that has a digit run ending at i ends
RECURSIVE GroupedEnd(_, _)
GroupedEnd(s, i) ==
    IF i + 1 <= Len(s) /\ s[i + 1] = "," /\ IsDigitAt(s, i + 2)
    THEN GroupedEnd(s, DigitRunEnd(s, i + 2))
    ELSE i

\* s starts with a comma-grouped number: groups of digits separated by single
\* commas, at least two groups, followed by nothing or by a unit
IsCommaGrouped(s) ==
    /\ IsDigitAt(s, 1)
    /\ LET e == GroupedEnd(s, DigitRunEnd(s, 1)) IN
         /\ \E i \in 1..e : s[i] = ","
         /\ e = Len(s) \/ s[e + 1] \notin {".", ","}

\* the number written by the groups, every grouping comma removed
GroupedValue(s) ==
    Float(DigitsVal(RemoveCommas(SubSeq(s, 1, GroupedEnd(s, DigitRunEnd(s, 1))))), 0)

\* C15: for a comma-grouped numeric string with any number of groups
\* parse_numeric_keep_raw returns the number obtained by removing every
\* grouping comma, together with the trimmed raw string.
C15_GroupedNumberIsParsedWhole ==
    (fnOut.done /\ fnIn.fn = "parse_numeric_keep_raw" /\ fnIn.arg.k = "str"
       /\ IsCommaGrouped(Strip(fnIn.arg.s)))
    => /\ fnOut.num = GroupedValue(Strip(fnIn.arg.s))
       /\ fnOut.raw = Str(Strip(fnIn.arg.s))

MissingWords ==
    {<<"n", "a">>, <<"n", "/", "a">>, <<"-">>, <<"n", "u", "l", "l">>,
     <<"n", "o", "n", "e">>}

HasDigit(w) == \E i \in 1..Len(w) : w[i] \in Digits

\* C16: parse_numeric_keep_raw never raises; for a sentinel (empty string or,
\* case-insensitively, na, n/a, -, null, none) and for a string without a
\* numeric token it returns (None, trimmed input); whenever the numeric value
\* is present the raw string is present too.
C16_MissingGivesAbsentAndRaw ==
    (fnOut.done /\ fnIn.fn = "parse_numeric_keep_raw")
    => /\ ~fnOut.raised
       /\ (fnIn.arg.k = "str"
             /\ \/ Strip(fnIn.arg.s) = <<>>
                \/ Lower(Strip(fnIn.arg.s)) \in MissingWords
                \/ ~HasDigit(fnIn.arg.s))
          => (fnOut.num = None /\ fnOut.raw = Str(Strip(fnIn.arg.s)))
       /\ fnOut.num # None => fnOut.raw.k = "str"

\* the sentinel "NA" with a blank before it
C16_Witness ==
    /\ fnOut.done
    /\ fnIn.fn = "parse_numeric_keep_raw"
    /\ fnIn.arg = Str(<<" ", "N", "A">>)
    /\ fnOut.raw = Str(<<"N", "A">>)

\* C17: clean_column_name is idempotent, and its output for a non-empty label
\* is lowercase, holds only word characters and has no leading, trailing or
\* doubled underscore.
C17_CleanColumnNameIdempotent ==
    (fnOut.done /\ fnIn.fn = "clean_column_name")
    => /\ clean_column_name(fnOut.name) = fnOut.name
       /\ (fnOut.name.k = "str" /\ fnOut.name.s # <<>>)
          => LET w == fnOut.name.s IN
             /\ Lower(w) = w
             /\ \A i \in 1..Len(w) : IsWord(w[i])
             /\ w[1] # "_" /\ w[Len(w)] # "_"
             /\ \A i \in 1..(Len(w) - 1) : ~(w[i] = "_" /\ w[i + 1] = "_")

----------------------------------------------------------------------------
(* Properties of save_to_sqlite (SpecSqlite) *)

\* the rows a call's records give in the table the call leaves
CallRows ==
    RowsOfRecords(RecordsOf(sqliteCall.data), ColumnsOf(RecordsOf(sqliteCall.data)),
                  sqlite.columns, sqliteCall.now)

\* C22: save_to_sqlite in append mode on an existing table never drops it, keeps
\* every row and adds the records of the call; the table is dropped and
\* recreated only when append_mode is false or the table does not exist, and
\* then holds exactly the records of the call. Calls on which the database
\* itself fails are set aside.
C22_AppendKeepsOverwriteReplaces ==
    (sqliteCall.called /\ sqliteCall.fault = "none")
    => /\ (sqliteCall.append_mode /\ sqliteCall.before.exists)
          => /\ ~sqliteCall.dropped
             /\ sqlite.exists
             /\ sqlite.rows = sqliteCall.before.rows \o CallRows
       /\ sqliteCall.dropped
          => /\ ~sqliteCall.append_mode \/ ~sqliteCall.before.exists
             /\ sqlite.exists
             /\ sqlite.rows = CallRows

----------------------------------------------------------------------------
(* Properties of concurrent save_to_database calls (SpecConcurrent) *)

\* the rows of the table that carry the timestamp of call p
RowsFrom(p) ==
    SelectSeq(tables[ConcTable], LAMBDA row : row = DirectBatch(1, p, FALSE)[1])

BothSucceeded ==
    \A p \in Procs : calls[p].pc = "returned" /\ calls[p].status = "success"

\* C29: if two save_to_database calls on the same destination table run
\* concurrently, with their insert-commit steps and their metadata-upsert steps
\* interleaved in any order, and both succeed, then afterwards the table holds
\* the rows of both batches and the metadata record_count equals the table's
\* total row count.
C29_ConcurrentSavesAddUp ==
    BothSucceeded
    => /\ \A p \in Procs : RowsFrom(p) = calls[p].data
       /\ metadata[ConcTable].present
       /\ metadata[ConcTable].record_count = CountRows(tables, ConcTable)

\* both calls succeeded with their steps interleaved: both batches were
\* committed before either upsert counted the table
C29_Witness ==
    /\ BothSucceeded
    /\ \A p \in Procs :
          /\ Len(calls[p].data) = MaxBatch
          /\ calls[p].pending.record_count = CountRows(tables, ConcTable)
    /\ Len(RowsFrom(0)) = 1

----------------------------------------------------------------------------
(* Properties of fetch_all_sources (SpecRun) *)

\* C2: after fetch_all_sources returns, results holds an entry for every enabled
\* source and for no disabled one, and every enabled source whose fetch
\* returned records was normalized, saved and recorded.
C2_EveryEnabledSourceRecorded ==
    pc = "run_done"
    => \A src \in SourceKeys :
          /\ results[src].present <=> src \in enabled
          /\ (src \in enabled /\ runLog[src].fetched)
             => (runLog[src].normalized /\ runLog[src].saved)

\* C3: no failure in one source raises out of fetch_all_sources, and a run
\* that returns has fetched every enabled source.
C3_NoFailureEscapes ==
    /\ pc # "run_raised"
    /\ pc = "run_done" => enabled \subseteq requested

\* C19: when fetch_data returned None for a source, the rest of the loop body
\* records {count: 0, status: "no_data"} for it, calls no normalizer and no
\* save_to_database, leaves every table and the metadata as they are, and goes
\* on to the next source.
C19_NoDataIsRecordedAndSkipped ==
    [][(pc = "run_fetched" /\ fetchRet = NoBody)
         => /\ results' = [results EXCEPT ![CurrentSource] = Entry(0, "no_data")]
            /\ runLog' = runLog
            /\ normOut' = normOut
            /\ saveRet' = saveRet
            /\ tables' = tables
            /\ metadata' = metadata
            /\ pc' = "run"
            /\ idx' = idx + 1]_vars

\* a run in which the first enabled source had no data and a later one was
\* fetched, saved and recorded
C19_Witness ==
    /\ pc = "run_done"
    /\ enabled = {"crop_production", "drought_cases"}
    /\ results["crop_production"] = Entry(0, "no_data")
    /\ ~runLog["crop_production"].normalized
    /\ tables["crop_production"] = <<>>
    /\ results["drought_cases"] = Entry(3, "success")

\* C21: after a run, the metadata row of every processed source shows the
\* outcome of the run: "success" when the source was saved, and not "success"
\* when the run ended in no_data or in a persistence failure for it.
C21_FetchStatusShowsLatestOutcome ==
    pc = "run_done"
    => \A src \in SourceKeys :
          results[src].present
          => IF results[src].status = "success"
             THEN metadata[src].present /\ metadata[src].fetch_status = "success"
             ELSE ~(metadata[src].present /\ metadata[src].fetch_status = "success")

ThreeWellFormed == <<WellFormed, WellFormed, WellFormed>>

\* the columns that carry the key and the year of a row
KeyColumns == {"state", "State", "SUBDIVISION", "state_ut"}
YearColumns == {"year", "Year", "YEAR"}

\* the value at each position is of the kind its column holds: the fetch
\* timestamp exactly under fetch_timestamp, a name (or None) under the key
\* column, a number (or None) under the year column
PositionsAgree(row, columns) ==
    \A i \in 1..Len(columns) :
        /\ (columns[i] = "fetch_timestamp") <=> (row[i].k = "time")
        /\ columns[i] \in KeyColumns => row[i].k \in {"str", "none"}
        /\ columns[i] \in YearColumns => row[i].k \in {"int", "float", "none"}

\* C23: for every source kind fetch_all_sources dispatches, every tuple of the
\* kind's normalizer has as many elements as the column list passed with it to
\* save_to_database, in the positional order of those columns, and every one
\* of those columns is declared in the destination table _init_database made.
C23_TuplesMatchColumns ==
    saveRet.called
    => LET columns == RunColumns(saveRet.table) IN
       /\ \A j \in 1..Len(columns) : columns[j] \in TableColumns(saveRet.table)
       /\ saveRet.table \in schema
       /\ \A i \in 1..Len(saveRet.data) :
             /\ Len(saveRet.data[i]) = Len(columns)
             /\ PositionsAgree(saveRet.data[i], columns)

\* a run has saved three Agency_Rainfall tuples, which carry no timestamp
C23_Witness ==
    /\ saveRet.called
    /\ saveRet.table = "Agency_Rainfall"
    /\ Len(saveRet.data) = Len(ThreeWellFormed)
    /\ saveRet.status = "success"

\* C24: during fetch_all_sources no database connection is open while an HTTP
\* request or a backoff wait is in progress: every connection a persist opened
\* is closed, on success and on failure, before the next fetch starts.
C24_NoConnectionDuringFetch ==
    pc \in {"run", "run_fetch", "run_fetched", "run_done"} => ~connOpen

\* a fetch is in progress after a persist of the same run failed
C24_Witness ==
    /\ pc = "run_fetch"
    /\ CurrentSource \in requested
    /\ saveRet.called
    /\ saveRet.fault = "upsert"
    /\ saveRet.status = "Error: upsert"
    /\ ~connOpen

\* C9: a run with one enabled source whose fetch returns 3 well-formed records
\* (and a database that does not fail) returns exactly one entry, with count 3
\* and status "success", and issues no request for a disabled source.
C9_OneEnabledSourceOfThree ==
    \A src \in SourceKeys :
       (pc = "run_done" /\ enabled = {src}
          /\ runLog[src].fetched /\ runLog[src].records = ThreeWellFormed
          /\ (saveRet.called => saveRet.fault = "none"))
       => /\ results[src] = Entry(3, "success")
          /\ \A other \in SourceKeys \ {src} : ~results[other].present
          /\ requested = {src}

====
